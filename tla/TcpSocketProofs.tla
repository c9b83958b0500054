-------------------------- MODULE TcpSocketProofs --------------------------
(***************************************************************************)
(* Lemmas about Tcp.tla on which TcpProofs.tla rests: arithmetic modulo    *)
(* SeqSpace, the inductive invariant, what each update of the socket does  *)
(* to its fields, the loop of socket_send_data, the steps of the sending   *)
(* and of the receiving half of the invariant, and the calls that send.    *)
(***************************************************************************)
EXTENDS Tcp, TLAPS

----------------------------------------------------------------------------
(* Sequences of bytes *)

LEMMA EmptySeq == <<>> \in Seq(Int) /\ Len(<<>>) = 0
OBVIOUS

LEMMA ElementOfSeq == ASSUME NEW s \in Seq(Int), NEW i \in 1..Len(s) PROVE s[i] \in Int
OBVIOUS

LEMMA LenProperties ==
  ASSUME NEW s \in Seq(Int)
  PROVE  Len(s) \in Nat /\ s \in [1..Len(s) -> Int] /\ DOMAIN s = 1..Len(s)
OBVIOUS

LEMMA SeqDef == ASSUME NEW n \in Nat, NEW s \in [1..n -> Int] PROVE s \in Seq(Int) /\ Len(s) = n
OBVIOUS

LEMMA ConcatProperties ==
  ASSUME NEW s \in Seq(Int), NEW t \in Seq(Int)
  PROVE  /\ s \o t \in Seq(Int) /\ Len(s \o t) = Len(s) + Len(t)
         /\ \A i \in 1..(Len(s) + Len(t)) :
              (s \o t)[i] = IF i <= Len(s) THEN s[i] ELSE t[i - Len(s)]
OBVIOUS

LEMMA SubSeqProperties ==
  ASSUME NEW s \in Seq(Int), NEW m \in Int, NEW n \in Int, \A i \in m..n : s[i] \in Int
  PROVE  /\ SubSeq(s, m, n) \in Seq(Int)
         /\ Len(SubSeq(s, m, n)) = IF m <= n THEN n - m + 1 ELSE 0
         /\ \A i \in 1..(n - m + 1) : SubSeq(s, m, n)[i] = s[m + i - 1]
OBVIOUS

----------------------------------------------------------------------------
(* Sequence numbers *)

LEMMA Space ==
  /\ SeqSpace \in Nat \ {0} /\ SeqSpace > 2 * (OutN + InN + 2)
  /\ OutN \in Nat /\ InN \in Nat /\ ISS \in Nat /\ PeerISS \in Nat
  /\ Mss \in Nat \ {0} /\ BufSize \in Nat \ {0} /\ ChunkSpace \in Nat \ {0}
  /\ MaxWindow \in Nat \ {0} /\ MaxLen \in Nat \ {0}
BY TcpAssumption

\* Division with remainder.
LEMMA Division ==
  ASSUME NEW m \in Nat \ {0}, NEW a \in Int
  PROVE  /\ a \div m \in Int /\ a % m \in 0..(m - 1)
         /\ a = m * (a \div m) + (a % m)
OBVIOUS

LEMMA RemainderUnique ==
  ASSUME NEW m \in Nat \ {0}, NEW a \in Int, NEW q \in Int, NEW r \in 0..(m - 1),
         a = m * q + r
  PROVE  a % m = r
<1> DEFINE p == a \div m
           t == a % m
<1>1. p \in Int /\ t \in 0..(m - 1) /\ m * p + t = m * q + r
  BY Division
<1> HIDE DEF p, t
<1>2. ASSUME NEW d \in Int, d = p - q PROVE m * d = r - t
  BY <1>1, <1>2
<1>3. ASSUME NEW d \in Int, d >= 1 PROVE m * d >= m
  BY <1>3
<1>4. ASSUME NEW d \in Int, d <= -1 PROVE m * d <= -m
  BY <1>4
<1>5. p - q = 0
  BY <1>1, <1>2, <1>3, <1>4
<1>6. t = r
  BY <1>1, <1>2, <1>5
<1> QED
  BY <1>6 DEF t

LEMMA SeqnoType == ASSUME NEW x \in Int PROVE Seqno(x) \in 0..(SeqSpace - 1) /\ Seqno(x) \in Int
BY Space, Division DEF Seqno

\* Taking the remainder first changes nothing.
LEMMA SeqnoSum ==
  ASSUME NEW x \in Int, NEW y \in Int
  PROVE  /\ Seqno(Seqno(x) + y) = Seqno(x + y)
         /\ Seqno(y - Seqno(x)) = Seqno(y - x)
<1> DEFINE m == SeqSpace
           q == x \div m
           r == x % m
           a == r + y
           b == y - r
<1>0. m \in Nat \ {0}
  BY Space
<1> HIDE DEF m
<1>1. q \in Int /\ r \in 0..(m - 1) /\ x = m * q + r
  BY <1>0, Division
<1> HIDE DEF q, r
<1>2. a \in Int /\ b \in Int
  BY <1>0, <1>1
<1>3. /\ a \div m \in Int /\ a % m \in 0..(m - 1) /\ a = m * (a \div m) + (a % m)
      /\ b \div m \in Int /\ b % m \in 0..(m - 1) /\ b = m * (b \div m) + (b % m)
  <2> HIDE DEF a, b
  <2> QED BY <1>0, <1>2, Division
<1>4. (x + y) % m = a % m
  <2> DEFINE k == a \div m
             t == a % m
  <2>1. x + y = m * (q + k) + t
    <3>1. r + y = m * k + t
      BY <1>3
    <3> HIDE DEF k, t, a
    <3>2. k \in Int /\ t \in Int
      BY <1>0, <1>3 DEF k, t
    <3>3. m * (q + k) = m * q + m * k
      BY <1>0, <1>1, <3>2
    <3> QED BY <1>0, <1>1, <3>1, <3>2, <3>3
  <2>2. k \in Int /\ t \in 0..(m - 1) /\ q + k \in Int
    BY <1>1, <1>3
  <2> HIDE DEF k, t
  <2>3. (x + y) % m = t
    <3> DEFINE z == x + y
    <3>1. z \in Int /\ z = m * (q + k) + t
      BY <2>1
    <3> HIDE DEF z
    <3>2. z % m = t
      BY Zenon, <1>0, <2>2, <3>1, RemainderUnique
    <3> QED BY <3>2 DEF z
  <2> QED BY <2>3 DEF t
<1>5. (y - x) % m = b % m
  <2> DEFINE k == b \div m
             t == b % m
  <2>1. y - x = m * (k - q) + t
    <3>1. y - r = m * k + t
      BY <1>3
    <3> HIDE DEF k, t, b
    <3>2. k \in Int /\ t \in Int
      BY <1>0, <1>3 DEF k, t
    <3>3. m * (k - q) = m * k - m * q
      BY <1>0, <1>1, <3>2
    <3> QED BY <1>0, <1>1, <3>1, <3>2, <3>3
  <2>2. k \in Int /\ t \in 0..(m - 1) /\ k - q \in Int
    BY <1>1, <1>3
  <2> HIDE DEF k, t
  <2>3. (y - x) % m = t
    <3> DEFINE z == y - x
    <3>1. z \in Int /\ z = m * (k - q) + t
      BY <2>1
    <3> HIDE DEF z
    <3>2. z % m = t
      BY Zenon, <1>0, <2>2, <3>1, RemainderUnique
    <3> QED BY <3>2 DEF z
  <2> QED BY <2>3 DEF t
<1> QED
  BY <1>4, <1>5 DEF Seqno, a, b, r, m

\* Numbers less than half the space apart are told apart, and ordered, by
\* their remainders.
LEMMA SeqnoNear ==
  ASSUME NEW x \in Int
  PROVE  /\ x \in 0..(SeqSpace - 1) => Seqno(x) = x
         /\ x \in -SeqSpace..(-1) => Seqno(x) = x + SeqSpace
<1> DEFINE m == SeqSpace
<1>0. m \in Nat \ {0}
  BY Space
<1> HIDE DEF m
<1>1. ASSUME x \in 0..(m - 1) PROVE x % m = x
  <2>1. x = m * 0 + x
    BY <1>0
  <2> QED BY <1>0, <1>1, <2>1, RemainderUnique
<1>2. ASSUME x \in -m..(-1) PROVE x % m = x + m
  <2>1. x = m * (-1) + (x + m) /\ x + m \in 0..(m - 1) /\ -1 \in Int
    BY <1>0, <1>2
  <2> QED BY <1>0, <2>1, RemainderUnique
<1> QED
  BY <1>1, <1>2 DEF Seqno, m

LEMMA SeqnoEqual ==
  ASSUME NEW x \in Int, NEW y \in Int, Seqno(x) = Seqno(y),
         -SeqSpace < x - y, x - y < SeqSpace
  PROVE  x = y
<1>1. Seqno(y - Seqno(x)) = Seqno(y - x) /\ Seqno(y - Seqno(y)) = Seqno(y - y)
  BY SeqnoSum
<1>2. Seqno(y - x) = Seqno(0)
  BY <1>1
<1>3. Seqno(0) = 0
  BY Space, SeqnoNear
<1> DEFINE d == y - x
<1>4. d \in Int /\ -SeqSpace < d /\ d < SeqSpace
  BY Space
<1>5. Seqno(d) = 0
  BY <1>2, <1>3
<1> HIDE DEF d
<1>6. d = 0
  BY <1>4, <1>5, Space, SeqnoNear
<1> QED
  BY <1>6 DEF d
----------------------------------------------------------------------------
(* The inductive invariant *)

States == {"CREATED", "CONNECTED", "CLOSED"}
Ops == {"none", "connect", "window", "ack", "recv", "fin"}
SockT == [state : States, seq : Int, ack : Int, rx : Seq(Int), off : Nat, window : Nat,
          read_shutdown : BOOLEAN, write_shutdown : BOOLEAN]
CallT == [op : Ops, left : Nat, chunk : Nat, attempt : Nat]
PeerT == [open : BOOLEAN, got : Seq(Int), fin : BOOLEAN]
SegmentT == [kind : {"SYN", "DATA", "FIN"}, seq : Int, data : Seq(Int)]

Shape ==
  /\ sock \in SockT /\ call \in CallT /\ peer \in PeerT /\ net \subseteq SegmentT
  /\ app_in \in Seq(Int) /\ app_out \in Nat /\ eof \in BOOLEAN

\* A data segment holds the bytes that belong to its sequence number, and
\* starts no later than the first byte not yet reported.
Slice(m) ==
  \E k \in 0..app_out : \E n \in 0..(OutN - k) :
    m.seq = Seqno(ISS + 1 + k) /\ m.data = [i \in 1..n |-> k + i]

Sending == call.op \in {"ack", "window"}

OutInv ==
  /\ app_out <= Len(peer.got) /\ Len(peer.got) <= OutN
  /\ \A i \in 1..Len(peer.got) : peer.got[i] = i
  /\ \A m \in net : m.kind = "DATA" => Slice(m)
  /\ Sending => app_out + call.left <= OutN /\ call.chunk <= call.left
  /\ Sending \/ (sock.state = "CONNECTED" /\ call.op # "fin") => sock.seq = Seqno(ISS + 1 + app_out)
  /\ sock.state = "CREATED" => sock.seq = ISS /\ app_out = 0
  /\ peer.fin \/ (\E m \in net : m.kind = "FIN") => sock.write_shutdown
  /\ sock.write_shutdown => ~Sending

\* How many bytes of the peer's stream s holds or has handed up.
Received(s) == Len(app_in) + Len(s.rx) - s.off

RxInv(s) ==
  /\ s.off <= Len(s.rx) /\ Len(s.rx) <= BufSize /\ Received(s) <= InN
  /\ \A i \in 1..(Len(s.rx) - s.off) : s.rx[s.off + i] = Len(app_in) + i

Synced(s) == s.state = "CONNECTED" /\ s.ack = Seqno(PeerISS + 1 + Received(s))
Finished(s) == s.state = "CLOSED" /\ Received(s) = InN /\ s.ack = Seqno(PeerISS + InN + 2)

InInv ==
  /\ RxInv(sock)
  /\ \A i \in 1..Len(app_in) : app_in[i] = i
  /\ sock.state = "CREATED" => call.op \in {"none", "connect"} /\ Received(sock) = 0
  /\ sock.state = "CONNECTED" => Synced(sock)
  /\ call.op = "connect" => sock.state = "CREATED"
  /\ call.op \in {"window", "recv", "fin"} => sock.state = "CONNECTED"
  /\ call.op = "ack" => sock.state = "CONNECTED" \/ Finished(sock)
  /\ call.op = "recv" => sock.off = Len(sock.rx)
  /\ eof => sock.state = "CLOSED" /\ call.op = "none" /\ sock.off = Len(sock.rx)

IInv == Shape /\ OutInv /\ InInv

----------------------------------------------------------------------------
(* The receive buffer *)

LEMMA UnreadBytes ==
  ASSUME NEW s \in SockT, s.off <= Len(s.rx)
  PROVE  /\ Unread(s) \in Seq(Int) /\ Len(Unread(s)) = Len(s.rx) - s.off
         /\ \A i \in 1..(Len(s.rx) - s.off) : Unread(s)[i] = s.rx[s.off + i]
<1> DEFINE a == s.off + 1
           b == Len(s.rx)
           r == s.rx
<1>1. /\ r \in Seq(Int) /\ b = Len(r) /\ b \in Nat /\ s.off \in Nat
      /\ a = s.off + 1 /\ s.off <= b
  BY DEF SockT
<1>3. Unread(s) = SubSeq(r, a, b)
  BY DEF Unread
<1> HIDE DEF a, b, r
<1>2. \A i \in a..b : r[i] \in Int
  BY <1>1, ElementOfSeq
<1>4. b - a + 1 = b - s.off /\ a \in Int /\ b \in Int
  BY <1>1
<1>5. \A i \in 1..(b - s.off) : a + i - 1 = s.off + i
  BY <1>1
<1>6. /\ SubSeq(r, a, b) \in Seq(Int)
      /\ Len(SubSeq(r, a, b)) = IF a <= b THEN b - a + 1 ELSE 0
      /\ \A i \in 1..(b - a + 1) : SubSeq(r, a, b)[i] = r[a + i - 1]
  BY <1>2, <1>4, SubSeqProperties
<1>7. Len(SubSeq(r, a, b)) = b - s.off
  BY <1>1, <1>4, <1>6
<1> QED
  BY <1>3, <1>4, <1>5, <1>6, <1>7 DEF b, r

\* Two fields of a record, one after the other.
LEMMA CompactedSock ==
  ASSUME NEW s \in SockT, s.off <= Len(s.rx)
  PROVE  /\ Compacted(s) \in SockT /\ Compacted(s).rx = Unread(s) /\ Compacted(s).off = 0
         /\ Compacted(s).state = s.state /\ Compacted(s).seq = s.seq /\ Compacted(s).ack = s.ack
         /\ Compacted(s).write_shutdown = s.write_shutdown
<1> DEFINE t == [s EXCEPT !.rx = Unread(s)]
           u == [t EXCEPT !.off = 0]
<1>1. Unread(s) \in Seq(Int)
  BY UnreadBytes
<1>2. /\ t \in SockT /\ t.rx = Unread(s) /\ t.state = s.state /\ t.seq = s.seq /\ t.ack = s.ack
      /\ t.write_shutdown = s.write_shutdown
  BY <1>1 DEF SockT
<1>3. Compacted(s) = u
  BY DEF Compacted
<1> HIDE DEF t
<1>4. /\ u \in SockT /\ u.rx = t.rx /\ u.off = 0 /\ u.state = t.state /\ u.seq = t.seq /\ u.ack = t.ack
      /\ u.write_shutdown = t.write_shutdown
  BY SMTT(20), <1>2 DEF SockT
<1> QED
  BY <1>2, <1>3, <1>4

LEMMA RoomySock ==
  ASSUME NEW s \in SockT, s.off <= Len(s.rx), Len(s.rx) <= BufSize, NEW n \in Nat
  PROVE  LET r == Roomy(s, n) IN
         /\ r \in SockT /\ r.state = s.state /\ r.seq = s.seq /\ r.ack = s.ack
         /\ r.write_shutdown = s.write_shutdown
         /\ r.off <= Len(r.rx) /\ Len(r.rx) <= BufSize /\ Len(r.rx) - r.off = Len(s.rx) - s.off
         /\ \A i \in 1..(Len(s.rx) - s.off) : r.rx[r.off + i] = s.rx[s.off + i]
<1> DEFINE c == Compacted(s)
<1>1. s.off \in Nat /\ Len(s.rx) \in Nat
  BY DEF SockT
<1>2. /\ c \in SockT /\ c.state = s.state /\ c.seq = s.seq /\ c.ack = s.ack
      /\ c.write_shutdown = s.write_shutdown /\ c.off = 0 /\ c.rx = Unread(s)
  BY CompactedSock
<1>3. Len(c.rx) = Len(s.rx) - s.off /\ \A i \in 1..(Len(s.rx) - s.off) : c.rx[c.off + i] = s.rx[s.off + i]
  BY <1>1, <1>2, UnreadBytes
<1> HIDE DEF c
<1>4. CASE Roomy(s, n) = s
  BY <1>1, <1>4
<1>5. CASE Roomy(s, n) = c
  <2>1. Len(c.rx) = Len(s.rx) - s.off /\ c.off = 0 /\ BufSize \in Nat
    BY <1>2, <1>3, Space
  <2>2. c.off <= Len(c.rx) /\ Len(c.rx) <= BufSize /\ Len(c.rx) - c.off = Len(s.rx) - s.off
    BY <1>1, <2>1
  <2> QED BY Zenon, <1>2, <1>3, <1>5, <2>2
<1>6. Roomy(s, n) = s \/ Roomy(s, n) = c
  BY DEF Roomy, c
<1> QED
  BY <1>4, <1>5, <1>6

LEMMA LeastOfTwo ==
  ASSUME NEW a \in Int, NEW b \in Int
  PROVE  Least(a, b) \in Int /\ Least(a, b) <= a /\ Least(a, b) <= b /\ Least(a, b) \in {a, b}
BY DEF Least

LEMMA FrameFields ==
  ASSUME Shape, NEW f \in Frames
  PROVE  /\ f.first \in 1..(InN + 1) /\ f.n \in Nat /\ f.fin \in BOOLEAN /\ f.window \in Nat
         /\ f.first + f.n <= InN + 1
         /\ f.fin => f.first + f.n = InN + 1
         /\ ~peer.fin => \E k \in 0..Len(peer.got) : f.ack = Seqno(ISS + 1 + k)
<1> DEFINE A == {Seqno(ISS + 1 + k) : k \in 0..Len(peer.got)}
           B == IF peer.fin THEN {Seqno(ISS + 2 + Len(peer.got))} ELSE {}
<1>1. /\ f \in [first : 1..(InN + 1), n : 0..Mss, fin : BOOLEAN, ack : A \cup B, window : 0..MaxWindow]
      /\ f.first + f.n <= InN + 1
      /\ f.fin => f.first + f.n = InN + 1
  BY DEF Frames
<1>2. ~peer.fin => f.ack \in A
  <2>1. f.ack \in A \cup B
    <3> HIDE DEF A, B
    <3> QED BY <1>1
  <2> QED BY <2>1
<1>3. ~peer.fin => \E k \in 0..Len(peer.got) : f.ack = Seqno(ISS + 1 + k)
  BY <1>2
<1> HIDE DEF A, B
<1>4. f.first \in 1..(InN + 1) /\ f.n \in 0..Mss /\ f.fin \in BOOLEAN /\ f.window \in 0..MaxWindow
  BY <1>1
<1>5. f.n \in Nat /\ f.window \in Nat
  BY <1>4, Space
<1> QED
  BY Zenon, <1>1, <1>3, <1>4, <1>5

\* The fields Store and its callers leave alone.
Kept(s, t) ==
  t \in SockT /\ t.seq = s.seq /\ t.write_shutdown = s.write_shutdown

LEMMA StoreSock ==
  ASSUME Shape, NEW s \in SockT, RxInv(s), Synced(s) \/ Finished(s),
         NEW f \in Frames, f.n > 0
  PROVE  LET t == Store(s, f) IN
         /\ Kept(s, t) /\ RxInv(t)
         /\ Synced(t) \/ Finished(t)
         /\ t.state # s.state => t.off < Len(t.rx)
<1> DEFINE r == Roomy(s, f.n)
           n == StoredBytes(s, f)
           t == Store(s, f)
<1>1. /\ f.first \in 1..(InN + 1) /\ f.n \in Nat /\ f.fin \in BOOLEAN
      /\ f.first + f.n <= InN + 1
      /\ f.fin => f.first + f.n = InN + 1
  BY FrameFields
<1>2. /\ s.off \in Nat /\ s.rx \in Seq(Int) /\ Len(s.rx) \in Nat /\ Len(app_in) \in Nat
      /\ s.off <= Len(s.rx) /\ Len(s.rx) <= BufSize /\ s.ack \in Int /\ s.state \in States
  BY DEF SockT, RxInv, Shape
<1>3. /\ r \in SockT /\ r.state = s.state /\ r.seq = s.seq /\ r.ack = s.ack
      /\ r.write_shutdown = s.write_shutdown
      /\ r.off <= Len(r.rx) /\ Len(r.rx) <= BufSize /\ Len(r.rx) - r.off = Len(s.rx) - s.off
      /\ \A i \in 1..(Len(s.rx) - s.off) : r.rx[r.off + i] = s.rx[s.off + i]
  BY Zenon, <1>1, <1>2, RoomySock
<1>4. r.off \in Nat /\ r.rx \in Seq(Int) /\ Len(r.rx) \in Nat
  BY <1>3 DEF SockT
<1>5. n = Least(f.n, BufSize - Len(r.rx))
  BY DEF StoredBytes
<1> HIDE DEF r, n
<1>6. n \in Nat /\ n <= f.n /\ n <= BufSize - Len(r.rx)
  <2> DEFINE room == BufSize - Len(r.rx)
  <2>1. room \in Nat
    BY <1>3, <1>4, Space
  <2>2. n = Least(f.n, room)
    BY <1>5
  <2> HIDE DEF room
  <2>3. n \in {f.n, room} /\ n <= f.n /\ n <= room
    <3>1. f.n \in Int /\ room \in Int
      BY <1>1, <2>1
    <3> QED BY Zenon, <2>2, <3>1, LeastOfTwo
  <2> QED BY <1>1, <2>1, <2>3 DEF room
<1>7. Received(r) = Received(s) /\ Received(s) \in 0..InN
  <2>1. Received(r) = Received(s)
    BY Zenon, <1>3 DEF Received
  <2>2. Received(s) <= InN /\ InN \in Nat
    BY Space DEF RxInv
  <2>3. s.off \in Nat /\ Len(s.rx) \in Nat /\ Len(app_in) \in Nat /\ s.off <= Len(s.rx)
    BY <1>2
  <2>4. Received(s) \in Nat
    BY <2>3 DEF Received
  <2> QED BY <2>1, <2>2, <2>4
<1>8. CASE ~InOrder(s, f)
  <2>1. t = s
    BY <1>8 DEF Store
  <2> QED BY <2>1 DEF Kept
<1>9. CASE InOrder(s, f) /\ n = 0
  <2>1. t = r
    BY <1>9 DEF Store, r, n
  <2>2. RxInv(r)
    BY Zenon, <1>2, <1>3, <1>4, <1>7 DEF RxInv
  <2> QED BY <1>3, <1>7, <2>1, <2>2 DEF Kept, Synced, Finished
<1>10. CASE InOrder(s, f) /\ n # 0
  <2>1. f.first = 1 + Received(s) /\ s.state = "CONNECTED" /\ s.ack = Seqno(PeerISS + 1 + Received(s))
    <3>1. Seqno(PeerISS + f.first) = s.ack
      BY <1>10 DEF InOrder, FrameSeq
    <3>2. CASE Synced(s)
      <4> DEFINE x == PeerISS + f.first
                 y == PeerISS + 1 + Received(s)
      <4>1. x \in Int /\ y \in Int /\ -SeqSpace < x - y /\ x - y < SeqSpace
        BY <1>1, <1>7, Space
      <4>2. Seqno(x) = Seqno(y)
        BY <3>1, <3>2 DEF Synced
      <4> HIDE DEF x, y
      <4>3. x = y
        BY <4>1, <4>2, SeqnoEqual
      <4> QED BY <1>1, <1>7, <3>2, <4>3, Space DEF Synced, x, y
    <3>3. CASE Finished(s)
      <4> DEFINE x == PeerISS + f.first
                 y == PeerISS + InN + 2
      <4>1. x \in Int /\ y \in Int /\ -SeqSpace < x - y /\ x - y < SeqSpace /\ x # y
        BY <1>1, Space
      <4>2. Seqno(x) = Seqno(y)
        BY <3>1, <3>3 DEF Finished
      <4> HIDE DEF x, y
      <4> QED BY <4>1, <4>2, SeqnoEqual
    <3> QED BY <3>2, <3>3
  <2> DEFINE p == Payload(f, n)
             ack == AckAfter(s, f, n)
             last == f.fin /\ n = f.n
             t1 == [r EXCEPT !.rx = r.rx \o p]
             t2 == [t1 EXCEPT !.ack = ack]
             t3 == [t2 EXCEPT !.state = IF last THEN "CLOSED" ELSE r.state]
  <2>2. t = t3
    BY <1>3, <1>10 DEF Store, r, n, SockT
  <2>3. p \in Seq(Int) /\ Len(p) = n /\ \A i \in 1..n : p[i] = Received(s) + i
    <3>1. p = [i \in 1..n |-> f.first + i - 1]
      BY DEF Payload
    <3>2. \A i \in 1..n : f.first + i - 1 \in Int
      BY <1>1, <1>6
    <3>3. p \in [1..n -> Int]
      BY <3>1, <3>2
    <3>4. \A i \in 1..n : p[i] = f.first + i - 1
      BY <3>1
    <3>5. \A i \in 1..n : f.first + i - 1 = Received(s) + i
      BY <1>1, <1>6, <1>7, <2>1
    <3> HIDE DEF p
    <3> QED BY <1>6, <3>3, <3>4, <3>5
  <2>4. ack = Seqno(PeerISS + 1 + Received(s) + n + (IF last THEN 1 ELSE 0))
    <3> DEFINE x == PeerISS + 1 + Received(s)
               y == n + (IF last THEN 1 ELSE 0)
    <3>1. x \in Int /\ y \in Int /\ x + y = PeerISS + 1 + Received(s) + n + (IF last THEN 1 ELSE 0)
      BY <1>6, <1>7, Space
    <3>2. ack = Seqno(Seqno(x) + y)
      BY <1>6, <2>1, <1>2 DEF AckAfter
    <3>3. Seqno(Seqno(x) + y) = Seqno(x + y)
      <4> HIDE DEF x, y
      <4> QED BY <3>1, SeqnoSum
    <3> QED BY <3>1, <3>2, <3>3
  <2>5. ack \in Int
    <3>1. PeerISS + 1 + Received(s) + n + (IF last THEN 1 ELSE 0) \in Int
      BY <1>6, <1>7, Space
    <3> HIDE DEF ack, last
    <3> QED BY <2>4, <3>1, SeqnoType
  <2> HIDE DEF p, ack
  <2>6. /\ r.rx \o p \in Seq(Int) /\ Len(r.rx \o p) = Len(r.rx) + n
        /\ \A i \in 1..(Len(r.rx) + n) :
             (r.rx \o p)[i] = IF i <= Len(r.rx) THEN r.rx[i] ELSE p[i - Len(r.rx)]
    BY Zenon, <1>4, <2>3, ConcatProperties
  <2>7. /\ t1 \in SockT /\ t1.rx = r.rx \o p /\ t1.off = r.off /\ t1.state = r.state
        /\ t1.seq = r.seq /\ t1.write_shutdown = r.write_shutdown
    BY Zenon, <1>3, <2>6 DEF SockT
  <2> HIDE DEF t1
  <2>8. /\ t2 \in SockT /\ t2.rx = t1.rx /\ t2.off = t1.off /\ t2.ack = ack
        /\ t2.seq = t1.seq /\ t2.write_shutdown = t1.write_shutdown
    BY Zenon, <2>5, <2>7 DEF SockT
  <2> HIDE DEF t2
  <2>9. /\ t3 \in SockT /\ t3.rx = t2.rx /\ t3.off = t2.off /\ t3.ack = t2.ack
        /\ t3.seq = t2.seq /\ t3.write_shutdown = t2.write_shutdown
        /\ t3.state = IF last THEN "CLOSED" ELSE "CONNECTED"
    BY Zenon, <1>3, <2>1, <2>8 DEF SockT, States
  <2> HIDE DEF t3, t, last
  <2>10. /\ Kept(s, t) /\ t.rx = r.rx \o p /\ t.off = r.off /\ t.ack = ack
         /\ t.state = IF last THEN "CLOSED" ELSE "CONNECTED"
    BY <1>3, <2>2, <2>7, <2>8, <2>9 DEF Kept
  <2> DEFINE len == Len(r.rx)
  <2>17. len \in Nat /\ Len(t.rx) = len + n /\ t.off = r.off
    BY <1>4, <2>6, <2>10
  <2>11. Received(t) = Received(s) + n /\ t.off < Len(t.rx)
    <3> DEFINE o == r.off
               u == Len(s.rx) - s.off
               a == Len(app_in)
    <3>1. o \in Nat /\ u \in Int /\ a \in Nat /\ o <= len /\ len - o = u /\ n \in Nat /\ n # 0
      BY <1>2, <1>3, <1>4, <1>6, <1>10
    <3>2. Received(t) = a + ((len + n) - o) /\ Received(s) = a + u
      BY <2>17 DEF Received
    <3> HIDE DEF o, u, a, len
    <3>3. Received(t) = Received(s) + n /\ o < len + n
      BY <2>17, <3>1, <3>2
    <3> QED BY <2>17, <3>3 DEF o
  <2>12. Received(s) + n <= InN /\ (last => Received(s) + n = InN)
    <3>0. Received(s) \in Nat /\ n \in Nat /\ n <= f.n /\ f.n \in Nat /\ InN \in Nat
      BY <1>1, <1>6, <1>7, Space
    <3>1. Received(s) + n <= InN
      <4>1. f.first = 1 + Received(s) /\ f.first + f.n <= InN + 1
        BY <1>1, <2>1
      <4> QED BY <3>0, <4>1
    <3>2. ASSUME last PROVE Received(s) + n = InN
      <4>1. f.first + n = InN + 1
        BY <1>1, <3>2 DEF last
      <4>2. f.first = 1 + Received(s)
        BY <2>1
      <4> QED BY SMTT(20), <3>0, <4>1, <4>2
    <3> QED BY <3>1, <3>2
  <2>13. \A i \in 1..(Len(t.rx) - t.off) : t.rx[t.off + i] = Len(app_in) + i
    <3> SUFFICES ASSUME NEW i \in 1..(Len(t.rx) - t.off)
                 PROVE  t.rx[t.off + i] = Len(app_in) + i
      OBVIOUS
    <3> DEFINE j == r.off + i
    <3>1. j \in 1..(Len(r.rx) + n) /\ t.rx[t.off + i] = (r.rx \o p)[j]
      BY <1>4, <1>6, <2>6, <2>10
    <3>2. CASE i <= Len(s.rx) - s.off
      <4>1. j <= Len(r.rx) /\ i \in 1..(Len(s.rx) - s.off)
        BY <1>2, <1>3, <1>4, <3>2
      <4> QED BY <1>3, <2>6, <3>1, <4>1 DEF RxInv
    <3>3. CASE i > Len(s.rx) - s.off
      <4>1. ~(j <= Len(r.rx)) /\ j - Len(r.rx) \in 1..n
            /\ Received(s) + (j - Len(r.rx)) = Len(app_in) + i
        <5>2. i \in Nat /\ i <= len + n - r.off /\ i > len - r.off
          BY <1>2, <1>3, <1>4, <1>6, <2>17, <3>3
        <5>3. Received(s) = Len(app_in) + (len - r.off)
          BY <1>2, <1>3, <1>4 DEF Received
        <5>4. ~(j <= len) /\ j - len \in 1..n
          <6> DEFINE o == r.off
          <6>1. o \in Nat /\ len \in Nat /\ i <= len + n - o /\ i > len - o /\ j = o + i
            BY <1>4, <2>17, <5>2
          <6> HIDE DEF len, o, j
          <6> QED BY <1>6, <5>2, <6>1
        <5>5. Received(s) + (j - len) = Len(app_in) + i
          <6> HIDE DEF len
          <6> QED BY <1>2, <1>4, <2>17, <5>2, <5>3
        <5> QED BY <5>4, <5>5
      <4> QED BY Zenon, <2>3, <2>6, <3>1, <4>1
    <3> QED BY <1>2, <3>2, <3>3
  <2>14. RxInv(t)
    <3>1. t.off <= Len(t.rx) /\ Len(t.rx) <= BufSize
      BY <1>3, <1>4, <1>6, <2>6, <2>10, Space
    <3> QED BY <2>11, <2>12, <2>13, <3>1 DEF RxInv
  <2>15. CASE last
    <3>1. PeerISS + 1 + Received(s) + n + 1 = PeerISS + InN + 2
      BY <1>6, <1>7, <2>12, <2>15, Space
    <3>2. Finished(t)
      BY <2>4, <2>10, <2>11, <2>12, <2>15, <3>1 DEF Finished
    <3> QED BY <2>10, <2>11, <2>14, <3>2 DEF t
  <2>16. CASE ~last
    <3>0. PeerISS \in Nat /\ Received(s) \in Nat /\ n \in Nat
      BY <1>6, <1>7, Space
    <3>1. PeerISS + 1 + Received(s) + n + 0 = PeerISS + 1 + (Received(s) + n)
      BY <3>0
    <3>2. Synced(t)
      BY <2>4, <2>10, <2>11, <2>16, <3>1 DEF Synced
    <3> QED BY <2>10, <2>11, <2>14, <3>2 DEF t
  <2> QED BY <2>15, <2>16
<1> QED
  BY <1>8, <1>9, <1>10

----------------------------------------------------------------------------
(* The other updates of the socket, field by field *)

SameRx(s, t) == t.rx = s.rx /\ t.off = s.off /\ t.ack = s.ack /\ t.state = s.state

LEMMA SeenSock ==
  ASSUME Shape, NEW f \in Frames
  PROVE  Kept(sock, Seen(f)) /\ SameRx(sock, Seen(f))
<1>1. f.window \in Nat /\ sock \in SockT
  BY FrameFields DEF Shape
<1> QED
  BY <1>1 DEF Seen, Kept, SameRx, SockT

LEMMA ClosedSock ==
  ASSUME NEW s \in SockT
  PROVE  /\ Kept(s, Closed(s)) /\ Closed(s).state = "CLOSED" /\ Closed(s).ack = s.ack
         /\ Closed(s).rx = s.rx /\ Closed(s).off = s.off
BY DEF Closed, Kept, SockT, States

LEMMA TakeFinSock ==
  ASSUME Shape, NEW s \in SockT, NEW f \in Frames
  PROVE  /\ Kept(s, TakeFin(s, f)) /\ TakeFin(s, f).state = "CLOSED"
         /\ TakeFin(s, f).rx = s.rx /\ TakeFin(s, f).off = s.off
<1> DEFINE a == Seqno(FrameSeq(f) + 1)
           t == [s EXCEPT !.ack = a]
           u == [t EXCEPT !.state = "CLOSED"]
<1>1. a \in Int
  <2>1. PeerISS + f.first \in Int
    BY FrameFields, Space
  <2>2. FrameSeq(f) \in Int
    BY <2>1, SeqnoType DEF FrameSeq
  <2>3. FrameSeq(f) + 1 \in Int
    BY <2>2
  <2> QED BY <2>3, SeqnoType
<1>2. TakeFin(s, f) = u
  BY DEF TakeFin
<1> HIDE DEF a
<1>3. t \in SockT /\ t.seq = s.seq /\ t.write_shutdown = s.write_shutdown /\ t.rx = s.rx /\ t.off = s.off
  BY <1>1 DEF SockT
<1> HIDE DEF t
<1>4. /\ u \in SockT /\ u.seq = t.seq /\ u.write_shutdown = t.write_shutdown /\ u.rx = t.rx /\ u.off = t.off
      /\ u.state = "CLOSED"
  BY <1>3 DEF SockT, States
<1> QED
  BY <1>2, <1>3, <1>4 DEF Kept

LEMMA AdvancedSock ==
  ASSUME NEW s \in SockT, call \in CallT
  PROVE  /\ Advanced(s) \in SockT /\ Advanced(s).seq = Seqno(s.seq + call.chunk)
         /\ Advanced(s).write_shutdown = s.write_shutdown /\ SameRx(s, Advanced(s))
<1>1. s.seq + call.chunk \in Int
  BY DEF SockT, CallT
<1>2. Seqno(s.seq + call.chunk) \in Int
  BY <1>1, SeqnoType
<1> QED
  BY Zenon, <1>2 DEF Advanced, SameRx, SockT

LEMMA EmptiedSock ==
  ASSUME NEW s \in SockT
  PROVE  /\ Kept(s, Emptied(s)) /\ Emptied(s).state = s.state /\ Emptied(s).ack = s.ack
         /\ Emptied(s).rx = <<>> /\ Emptied(s).off = 0
<1> DEFINE t == [s EXCEPT !.rx = <<>>]
           u == [t EXCEPT !.off = 0]
<1>1. <<>> \in Seq(Int)
  BY EmptySeq
<1>2. Emptied(s) = u
  BY DEF Emptied
<1>3. /\ t \in SockT /\ t.seq = s.seq /\ t.write_shutdown = s.write_shutdown /\ t.rx = <<>>
      /\ t.ack = s.ack /\ t.state = s.state
  BY Zenon, <1>1 DEF SockT
<1> HIDE DEF t
<1>4. /\ u \in SockT /\ u.seq = t.seq /\ u.write_shutdown = t.write_shutdown /\ u.rx = t.rx
      /\ u.off = 0 /\ u.ack = t.ack /\ u.state = t.state
  BY Zenon, <1>3 DEF SockT
<1> QED
  BY <1>2, <1>3, <1>4 DEF Kept

LEMMA Calls ==
  /\ Idle \in CallT /\ Idle.op = "none"
  /\ \A op \in Ops, left \in Nat, chunk \in Nat :
       /\ Waiting(op, left, chunk) \in CallT /\ Waiting(op, left, chunk).op = op
       /\ Waiting(op, left, chunk).left = left /\ Waiting(op, left, chunk).chunk = chunk
BY DEF Idle, Waiting, CallT, Ops

----------------------------------------------------------------------------
(* The loop of socket_send_data *)

LEMMA RemainderBound == ASSUME NEW m \in Nat \ {0}, NEW a \in Nat PROVE a % m \in Nat /\ a % m <= a
<1> DEFINE q == a \div m
           r == a % m
<1>1. q \in Int /\ r \in 0..(m - 1) /\ a = m * q + r
  BY Division
<1> HIDE DEF q, r
<1>2. ASSUME q <= -1 PROVE FALSE
  <2>1. m * q <= -m
    BY <1>1, <1>2
  <2> QED BY <1>1, <2>1
<1>3. q >= 0 => m * q >= 0
  BY <1>1
<1>4. r \in Nat /\ r <= a
  BY <1>1, <1>2, <1>3
<1> QED
  BY <1>4 DEF r

LEMMA ChunkBound == ASSUME NEW s \in SockT, NEW left \in Nat PROVE Chunk(s, left) \in 0..left
<1> DEFINE a == left % ChunkSpace
           w == s.window
<1>1. a \in Nat /\ a <= left /\ w \in Nat /\ Mss \in Nat
  BY SMTT(20), Space, RemainderBound DEF SockT
<1>2. Chunk(s, left) = Least(Least(a, Mss), w)
  BY DEF Chunk
<1> HIDE DEF a, w
<1> QED
  BY <1>1, <1>2 DEF Least

\* What one pass leaves: the call is over or waits, and at most one segment,
\* cut from the bytes that are left, is on its way.
LEMMA SendLoopEffect ==
  ASSUME NEW s \in SockT, NEW left \in Nat, SendLoop(s, left)
  PROVE  /\ sock' = s /\ call' \in CallT
         /\ \E c \in 0..left :
              /\ net' \subseteq net \cup {OutSegment(s, c)}
              /\ \/ call'.op = "none"
                 \/ call'.op \in {"ack", "window"} /\ call'.left = left /\ call'.chunk = c
         /\ call'.op = "window" => s.state = "CONNECTED"
<1> DEFINE c == Chunk(s, left)
<1>1. c \in 0..left /\ 0 \in 0..left /\ c \in Nat
  BY ChunkBound
<1>2. \/ sock' = s /\ call' = Idle /\ net' \subseteq net \cup {OutSegment(s, c)}
      \/ sock' = s /\ call' = Waiting("window", left, 0) /\ net' = net /\ s.state = "CONNECTED"
      \/ sock' = s /\ call' = Waiting("ack", left, c) /\ net' \subseteq net \cup {OutSegment(s, c)}
  BY DEF SendLoop, Return
<1> HIDE DEF c
<1>3. CASE sock' = s /\ call' = Idle /\ net' \subseteq net \cup {OutSegment(s, c)}
  BY Zenon, <1>1, <1>3, Calls
<1>4. CASE sock' = s /\ call' = Waiting("window", left, 0) /\ net' = net /\ s.state = "CONNECTED"
  <2>1. call' \in CallT /\ call'.op = "window" /\ call'.left = left /\ call'.chunk = 0
    BY <1>4, Calls DEF Ops
  <2> QED BY <1>1, <1>4, <2>1
<1>5. CASE sock' = s /\ call' = Waiting("ack", left, c) /\ net' \subseteq net \cup {OutSegment(s, c)}
  <2>1. call' \in CallT /\ call'.op = "ack" /\ call'.left = left /\ call'.chunk = c
    BY <1>1, <1>5, Calls DEF Ops
  <2> QED BY <1>1, <1>5, <2>1
<1> QED
  BY <1>2, <1>3, <1>4, <1>5

LEMMA NewSegment ==
  ASSUME NEW s \in SockT, NEW c \in Nat, app_out' \in Nat
  PROVE  /\ OutSegment(s, c) \in SegmentT /\ OutSegment(s, c).kind = "DATA"
         /\ OutSegment(s, c).seq = s.seq
         /\ OutSegment(s, c).data = [i \in 1..c |-> app_out' + i]
<1> DEFINE d == [i \in 1..c |-> app_out' + i]
<1>1. d \in [1..c -> Int]
  OBVIOUS
<1>2. OutSegment(s, c) = [kind |-> "DATA", seq |-> s.seq, data |-> d]
  BY DEF OutSegment, Segment
<1> HIDE DEF d
<1>3. d \in Seq(Int)
  BY <1>1
<1>4. s.seq \in Int
  BY DEF SockT
<1> QED
  BY <1>2, <1>3, <1>4 DEF SegmentT, d

\* Segments stay slices when more bytes are reported.
LEMMA SliceKept ==
  ASSUME NEW m, Slice(m), app_out \in Nat, app_out' \in Nat, app_out <= app_out'
  PROVE  Slice(m)'
<1>1. PICK k \in 0..app_out : \E n \in 0..(OutN - k) :
        m.seq = Seqno(ISS + 1 + k) /\ m.data = [i \in 1..n |-> k + i]
  BY DEF Slice
<1>2. k \in 0..app_out'
  OBVIOUS
<1> QED
  BY Zenon, <1>1, <1>2 DEF Slice

\* After a pass of the loop that starts at the right sequence number.
LEMMA OutSend ==
  ASSUME Shape, OutInv, NEW s \in SockT, NEW left \in Nat, SendLoop(s, left),
         app_out' \in Nat, app_out <= app_out', app_out' <= Len(peer.got),
         app_out' + left <= OutN, s.seq = Seqno(ISS + 1 + app_out'), s.state # "CREATED",
         peer' = peer, ~sock.write_shutdown, ~s.write_shutdown
  PROVE  /\ OutInv' /\ net' \subseteq SegmentT
<1>1. PICK c \in 0..left :
        /\ net' \subseteq net \cup {OutSegment(s, c)}
        /\ \/ call'.op = "none"
           \/ call'.op \in {"ack", "window"} /\ call'.left = left /\ call'.chunk = c
  BY SendLoopEffect
<1>2. sock' = s /\ call' \in CallT
  BY SendLoopEffect
<1>3. /\ OutSegment(s, c) \in SegmentT /\ OutSegment(s, c).kind = "DATA"
      /\ OutSegment(s, c).seq = s.seq
      /\ OutSegment(s, c).data = [i \in 1..c |-> app_out' + i]
  <2>1. c \in Nat
    OBVIOUS
  <2> QED BY Zenon, <2>1, NewSegment
<1>4. ASSUME NEW x, x = OutSegment(s, c) PROVE Slice(x)'
  <2> DEFINE k == app_out'
  <2>1. k \in 0..k
    OBVIOUS
  <2>2. c \in Int /\ c <= left /\ c >= 0
    OBVIOUS
  <2>3. k + left <= OutN /\ k \in Nat /\ OutN \in Nat
    BY Zenon, Space
  <2> HIDE DEF k
  <2>4. c \in 0..(OutN - k)
    BY <2>2, <2>3
  <2>5. x.seq = Seqno(ISS + 1 + k) /\ x.data = [i \in 1..c |-> k + i]
    BY <1>3, <1>4 DEF k
  <2> QED BY Zenon, <2>1, <2>4, <2>5 DEF Slice, k
<1>5. \A m \in net' : m \in net \/ m = OutSegment(s, c)
  BY <1>1
<1>6. \A m \in net' : m \in SegmentT /\ (m.kind = "DATA" => Slice(m)') /\ m.kind # "FIN"
  <2> SUFFICES ASSUME NEW m \in net'
               PROVE  m \in SegmentT /\ (m.kind = "DATA" => Slice(m)') /\ m.kind # "FIN"
    OBVIOUS
  <2>1. CASE m \in net
    <3>1. m \in SegmentT /\ (m.kind = "DATA" => Slice(m)) /\ m.kind # "FIN"
      BY <2>1 DEF Shape, OutInv
    <3> QED BY <3>1, SliceKept DEF Shape
  <2>2. CASE m = OutSegment(s, c)
    <3>1. m \in SegmentT /\ m.kind = "DATA"
      BY <1>3, <2>2
    <3>2. Slice(m)'
      BY Zenon, <1>4, <2>2
    <3> QED BY <3>1, <3>2
  <2> QED BY <1>5, <2>1, <2>2
<1>7. net' \subseteq SegmentT /\ (\A m \in net' : m.kind = "DATA" => Slice(m)')
      /\ ~\E m \in net' : m.kind = "FIN"
  BY <1>6
<1>8. ~peer.fin
  BY DEF OutInv
<1>9. /\ app_out' <= Len(peer'.got) /\ Len(peer'.got) <= OutN
      /\ \A i \in 1..Len(peer'.got) : peer'.got[i] = i
  BY DEF OutInv
<1>10. Sending' => app_out' + call'.left <= OutN /\ call'.chunk <= call'.left
  BY <1>1 DEF Sending
<1>11. /\ sock'.seq = Seqno(ISS + 1 + app_out') /\ sock'.state # "CREATED" /\ ~sock'.write_shutdown
       /\ ~peer'.fin
  BY <1>2, <1>8
<1> QED
  BY Zenon, <1>7, <1>9, <1>10, <1>11 DEF OutInv

\* Steps that send nothing new and report nothing new.
LEMMA OutQuiet ==
  ASSUME Shape, OutInv, app_out' = app_out, peer' = peer,
         sock'.seq = sock.seq, sock'.write_shutdown = sock.write_shutdown,
         Sending' => Sending /\ call'.left = call.left /\ call'.chunk = call.chunk,
         sock'.state = "CREATED" => sock.state = "CREATED",
         sock'.state = "CONNECTED" /\ call'.op # "fin" =>
           Sending \/ (sock.state = "CONNECTED" /\ call.op # "fin"),
         \A m \in net' : m \in net \/ m.kind = "SYN" \/ (m.kind = "DATA" /\ Slice(m))
  PROVE  OutInv'
<1>1. app_out \in Nat
  BY DEF Shape
<1>2. \A m \in net' : m.kind = "DATA" => Slice(m)'
  <2> SUFFICES ASSUME NEW m \in net', m.kind = "DATA" PROVE Slice(m)'
    OBVIOUS
  <2>1. Slice(m)
    BY DEF OutInv
  <2> QED BY <1>1, <2>1, SliceKept
<1>3. (\E m \in net' : m.kind = "FIN") => \E m \in net : m.kind = "FIN"
  OBVIOUS
<1>4. Sending' => app_out' + call'.left <= OutN /\ call'.chunk <= call'.left
  BY DEF OutInv
<1>5. Sending' \/ (sock'.state = "CONNECTED" /\ call'.op # "fin") => sock'.seq = Seqno(ISS + 1 + app_out')
  BY Zenon DEF OutInv
<1>6. /\ sock'.state = "CREATED" => sock'.seq = ISS /\ app_out' = 0
      /\ peer'.fin \/ (\E m \in net' : m.kind = "FIN") => sock'.write_shutdown
      /\ sock'.write_shutdown => ~Sending'
  BY Zenon, <1>3 DEF OutInv
<1>7. /\ app_out' <= Len(peer'.got) /\ Len(peer'.got) <= OutN
      /\ \A i \in 1..Len(peer'.got) : peer'.got[i] = i
  BY DEF OutInv
<1> QED
  BY Zenon, <1>2, <1>4, <1>5, <1>6, <1>7 DEF OutInv

----------------------------------------------------------------------------
(* The receiving half, step by step *)

\* Steps that take nothing from the peer and hand nothing up.
LEMMA InQuiet ==
  ASSUME Shape, InInv, app_in' = app_in, sock'.rx = sock.rx, sock'.off = sock.off,
         \/ sock'.ack = sock.ack /\ sock'.state = sock.state /\ call'.op \in {call.op, "none"}
         \/ sock'.state = "CLOSED" /\ call'.op = "none",
         eof' => eof \/ (call.op = "recv" /\ sock'.state = "CLOSED" /\ call'.op = "none")
  PROVE  InInv'
<1>1. RxInv(sock)' /\ Received(sock)' = Received(sock)
  BY DEF InInv, RxInv, Received
<1>2. \A i \in 1..Len(app_in') : app_in'[i] = i
  BY DEF InInv
<1>3. sock'.state = "CREATED" => call'.op \in {"none", "connect"} /\ Received(sock)' = 0
  BY <1>1 DEF InInv
<1>4. sock'.state = "CONNECTED" => Synced(sock)'
  BY <1>1 DEF InInv, Synced
<1>5. /\ call'.op = "connect" => sock'.state = "CREATED"
      /\ call'.op \in {"window", "recv", "fin"} => sock'.state = "CONNECTED"
      /\ call'.op = "ack" => sock'.state = "CONNECTED" \/ Finished(sock)'
  BY <1>1 DEF InInv, Finished
<1>6. call'.op = "recv" => sock'.off = Len(sock'.rx)
  BY DEF InInv
<1>7. eof' => sock'.state = "CLOSED" /\ call'.op = "none" /\ sock'.off = Len(sock'.rx)
  BY DEF InInv
<1> QED
  BY Zenon, <1>1, <1>2, <1>3, <1>4, <1>5, <1>6, <1>7 DEF InInv

\* Steps of a call that may have stored a segment, and hand nothing up.
LEMMA InFrame ==
  ASSUME Shape, InInv, app_in' = app_in, ~eof', NEW t, sock' = t, RxInv(t),
         \/ Synced(t) \/ Finished(t) \/ (t.state = "CLOSED" /\ call'.op = "none"),
         \/ call'.op \in {"none", "ack"}
         \/ call'.op \in {"window", "fin"} /\ t.state = "CONNECTED"
         \/ call'.op = "recv" /\ t.state = "CONNECTED" /\ t.off = Len(t.rx)
  PROVE  InInv'
<1>1. /\ RxInv(sock)' /\ Received(sock)' = Received(t)
  BY DEF RxInv, Received
<1>2. \A i \in 1..Len(app_in') : app_in'[i] = i
  BY DEF InInv
<1>3. sock'.state # "CREATED"
  BY DEF Synced, Finished
<1>4. sock'.state = "CONNECTED" => Synced(sock)'
  BY <1>1 DEF Synced, Finished
<1>5. call'.op = "ack" => sock'.state = "CONNECTED" \/ Finished(sock)'
  BY <1>1 DEF Synced, Finished
<1>6. /\ call'.op # "connect"
      /\ call'.op \in {"window", "recv", "fin"} => sock'.state = "CONNECTED"
      /\ call'.op = "recv" => sock'.off = Len(sock'.rx)
  OBVIOUS
<1> QED
  BY Zenon, <1>1, <1>2, <1>3, <1>4, <1>5, <1>6 DEF InInv

\* The copy to the application.
LEMMA InDeliver ==
  ASSUME Shape, InInv, NEW s \in SockT, RxInv(s), s.state # "CREATED",
         s.state = "CONNECTED" => Synced(s), NEW n \in Nat, Deliver(s, n), ~eof'
  PROVE  InInv' /\ sock' \in SockT /\ app_in' \in Seq(Int) /\ Kept(s, sock') /\ call' = Idle
         /\ sock'.state = s.state
<1> DEFINE u == Unread(s)
           k == Least(n, Len(u))
           d == SubSeq(u, 1, k)
<1>1. /\ s.off \in Nat /\ s.rx \in Seq(Int) /\ Len(s.rx) \in Nat /\ s.off <= Len(s.rx)
      /\ app_in \in Seq(Int) /\ Len(app_in) \in Nat /\ \A i \in 1..Len(app_in) : app_in[i] = i
  <2>1. s.off \in Nat /\ s.rx \in Seq(Int) /\ app_in \in Seq(Int)
    BY DEF SockT, Shape
  <2>2. s.off <= Len(s.rx) /\ \A i \in 1..Len(app_in) : app_in[i] = i
    BY DEF RxInv, InInv
  <2> QED BY <2>1, <2>2
<1>2. /\ u \in Seq(Int) /\ Len(u) = Len(s.rx) - s.off
      /\ \A i \in 1..(Len(s.rx) - s.off) : u[i] = s.rx[s.off + i]
  BY <1>1, UnreadBytes
<1>3. app_in' = app_in \o d /\ sock' = [s EXCEPT !.off = @ + k] /\ call' = Idle
  BY DEF Deliver, Return
<1> HIDE DEF u
<1>4. k \in Nat /\ k <= Len(u)
  <2>1. Len(u) \in Nat /\ Len(u) \in Int /\ n \in Int
    BY <1>2
  <2>2. k \in {n, Len(u)} /\ k <= Len(u)
    BY Zenon, <2>1, LeastOfTwo
  <2> QED BY <2>1, <2>2
<1> HIDE DEF k
<1>5. d \in Seq(Int) /\ Len(d) = k /\ \A i \in 1..k : d[i] = u[i]
  BY <1>2, <1>4
<1>6. /\ app_in' \in Seq(Int) /\ Len(app_in') = Len(app_in) + k
      /\ \A i \in 1..(Len(app_in) + k) :
           app_in'[i] = IF i <= Len(app_in) THEN app_in[i] ELSE d[i - Len(app_in)]
  <2> HIDE DEF d
  <2>1. /\ app_in \o d \in Seq(Int) /\ Len(app_in \o d) = Len(app_in) + Len(d)
        /\ \A i \in 1..(Len(app_in) + Len(d)) :
             (app_in \o d)[i] = IF i <= Len(app_in) THEN app_in[i] ELSE d[i - Len(app_in)]
    <3>1. app_in \in Seq(Int) /\ d \in Seq(Int)
      BY <1>1, <1>5
    <3> QED BY <3>1, ConcatProperties
  <2>2. app_in' = app_in \o d /\ Len(d) = k
    BY <1>3, <1>5
  <2> QED BY Zenon, <2>1, <2>2
<1>7. /\ sock' \in SockT /\ sock'.off = s.off + k /\ sock'.rx = s.rx /\ sock'.ack = s.ack
      /\ sock'.state = s.state /\ Kept(s, sock')
  <2> DEFINE t == [s EXCEPT !.off = s.off + k]
  <2>1. s.off + k \in Nat
    BY <1>1, <1>4
  <2>2. /\ t \in SockT /\ t.off = s.off + k /\ t.rx = s.rx /\ t.ack = s.ack /\ t.seq = s.seq
        /\ t.state = s.state /\ t.write_shutdown = s.write_shutdown
    BY Zenon, <2>1 DEF SockT
  <2>3. sock' = t
    BY Zenon, <1>3
  <2> HIDE DEF t
  <2> QED BY <2>2, <2>3 DEF Kept
<1>8. Received(sock)' = Received(s)
  BY <1>1, <1>4, <1>6, <1>7 DEF Received
<1>9. \A i \in 1..(Len(s.rx) - s.off) : s.rx[s.off + i] = Len(app_in) + i
  BY DEF RxInv
<1>10. RxInv(sock)'
  <2>1. sock'.off <= Len(sock'.rx) /\ Len(sock'.rx) <= BufSize /\ Received(sock)' <= InN
    BY <1>1, <1>2, <1>4, <1>7, <1>8 DEF RxInv
  <2>2. ASSUME NEW i \in 1..(Len(s.rx) - (s.off + k))
        PROVE  s.rx[(s.off + k) + i] = Len(app_in) + k + i
    <3> DEFINE j == k + i
    <3>1. j \in 1..(Len(s.rx) - s.off) /\ s.off + j = (s.off + k) + i
          /\ Len(app_in) + j = Len(app_in) + k + i
      <4>1. s.off \in Nat /\ Len(s.rx) \in Nat /\ Len(app_in) \in Nat /\ k \in Nat
        BY <1>1, <1>4
      <4> QED BY SMTT(20), <4>1
    <3>2. s.rx[s.off + j] = Len(app_in) + j
      <4> HIDE DEF j
      <4> QED BY <1>9, <3>1
    <3> QED BY <3>1, <3>2
  <2>3. \A i \in 1..(Len(sock'.rx) - sock'.off) : sock'.rx[sock'.off + i] = Len(app_in') + i
    BY <1>6, <1>7, <2>2
  <2> QED BY <2>1, <2>3 DEF RxInv
<1>11. \A i \in 1..Len(app_in') : app_in'[i] = i
  <2> SUFFICES ASSUME NEW i \in 1..(Len(app_in) + k) PROVE app_in'[i] = i
    BY <1>6
  <2>0. Len(app_in) \in Nat /\ i \in Nat
    BY <1>1, <1>4
  <2>1. CASE i <= Len(app_in)
    <3>1. i \in 1..Len(app_in) /\ app_in'[i] = app_in[i]
      BY <1>6, <2>0, <2>1
    <3> QED BY Zenon, <1>1, <3>1
  <2>2. CASE ~(i <= Len(app_in))
    <3> DEFINE j == i - Len(app_in)
    <3>1. j \in 1..k /\ j \in 1..(Len(s.rx) - s.off) /\ Len(app_in) + j = i
      BY <1>1, <1>2, <1>4, <2>2
    <3>2. app_in'[i] = d[j]
      BY Zenon, <1>6, <2>2
    <3> HIDE DEF j, d
    <3>3. d[j] = u[j] /\ u[j] = s.rx[s.off + j]
      BY <1>2, <1>5, <3>1
    <3>4. s.rx[s.off + j] = Len(app_in) + j
      BY <1>9, <3>1
    <3> QED BY <3>1, <3>2, <3>3, <3>4
  <2> QED BY <2>1, <2>2
<1>12. sock'.state = "CONNECTED" => Synced(sock)'
  BY <1>7, <1>8 DEF Synced
<1>13. call'.op = "none"
  BY <1>3, Calls
<1>14. InInv'
  BY Zenon, <1>7, <1>10, <1>11, <1>12, <1>13 DEF InInv
<1> QED
  BY <1>3, <1>6, <1>7, <1>14

----------------------------------------------------------------------------
(* The calls that send *)

\* The socket as a wait sees it once a frame of the peer is in.
LEMMA SeenInv ==
  ASSUME IInv, NEW f \in Frames, call.op \in {"ack", "window", "recv", "fin"}
  PROVE  LET s == Seen(f) IN
         /\ Kept(sock, s) /\ SameRx(sock, s) /\ RxInv(s) /\ ~eof
         /\ Synced(s) \/ Finished(s)
         /\ call.op # "ack" => s.state = "CONNECTED"
<1> DEFINE s == Seen(f)
<1>1. Shape /\ InInv
  BY DEF IInv
<1>2. Kept(sock, s) /\ SameRx(sock, s)
  BY <1>1, SeenSock
<1> HIDE DEF s
<1>3. RxInv(s) /\ Received(s) = Received(sock)
  BY <1>1, <1>2 DEF InInv, RxInv, Received, SameRx
<1>4. Synced(sock) \/ Finished(sock)
  BY <1>1 DEF InInv
<1>5. Synced(s) \/ Finished(s)
  BY <1>2, <1>3, <1>4 DEF SameRx, Synced, Finished
<1>6. (call.op # "ack" => s.state = "CONNECTED") /\ ~eof
  BY <1>1, <1>2 DEF InInv, SameRx
<1> QED
  BY <1>2, <1>3, <1>5, <1>6 DEF s

LEMMA StoredInv ==
  ASSUME IInv, NEW f \in Frames, call.op \in {"ack", "window", "recv", "fin"}, f.n > 0
  PROVE  LET s == Store(Seen(f), f) IN
         /\ Kept(sock, s) /\ RxInv(s)
         /\ Synced(s) \/ Finished(s)
         /\ call.op # "ack" /\ s.state # "CONNECTED" => s.off < Len(s.rx)
<1> DEFINE s == Seen(f)
           t == Store(s, f)
<1>1. Shape
  BY DEF IInv
<1>2. /\ Kept(sock, s) /\ RxInv(s)
      /\ Synced(s) \/ Finished(s)
      /\ call.op # "ack" => s.state = "CONNECTED"
  BY SeenInv
<1> HIDE DEF s
<1>3. s \in SockT
  BY <1>2 DEF Kept
<1>4. /\ Kept(s, t) /\ RxInv(t)
      /\ Synced(t) \/ Finished(t)
      /\ t.state # s.state => t.off < Len(t.rx)
  BY <1>1, <1>2, <1>3, StoreSock
<1> HIDE DEF t
<1>5. Kept(sock, t)
  BY <1>2, <1>4 DEF Kept
<1>6. call.op # "ack" /\ t.state # "CONNECTED" => t.off < Len(t.rx)
  BY <1>2, <1>4
<1> QED
  BY <1>4, <1>5, <1>6 DEF s, t

\* A FIN taken from a frame closes the socket and leaves its buffer alone.
LEMMA TakenInv ==
  ASSUME Shape, NEW s, s \in SockT, RxInv(s), NEW f \in Frames
  PROVE  LET t == TakeFin(s, f) IN
         /\ Kept(s, t) /\ RxInv(t) /\ t.state = "CLOSED"
         /\ t.rx = s.rx /\ t.off = s.off
<1> DEFINE t == TakeFin(s, f)
<1>1. /\ Kept(s, t) /\ t.state = "CLOSED" /\ t.rx = s.rx /\ t.off = s.off
  BY TakeFinSock
<1> HIDE DEF t
<1>2. RxInv(t)
  BY <1>1 DEF RxInv, Received
<1> QED
  BY <1>1, <1>2 DEF t

\* An acknowledgement that covers the chunk was given after the peer had it.
LEMMA AcknowledgedDelivered ==
  ASSUME IInv, NEW f \in Frames, call.op = "ack", Acknowledged(f)
  PROVE  app_out + call.chunk <= Len(peer.got)
<1> DEFINE g == Len(peer.got)
           e == app_out + call.chunk
<1>1. /\ Shape /\ ~peer.fin /\ sock.seq = Seqno(ISS + 1 + app_out)
      /\ app_out + call.left <= OutN /\ call.chunk <= call.left
      /\ app_out \in Nat /\ call.chunk \in Nat /\ call.left \in Nat /\ peer.got \in Seq(Int)
  BY DEF IInv, OutInv, Sending, Shape, CallT, PeerT
<1>2. PICK k \in 0..g : f.ack = Seqno(ISS + 1 + k)
  BY <1>1, FrameFields
<1>3. e \in Nat /\ e <= OutN /\ g \in Nat /\ k \in Nat /\ k <= g
  <2>1. g \in Nat /\ OutN \in Nat
    BY <1>1, Space
  <2>2. app_out + call.left <= OutN /\ call.chunk <= call.left
        /\ app_out \in Nat /\ call.chunk \in Nat /\ call.left \in Nat
    BY <1>1
  <2> HIDE DEF g
  <2> QED BY <2>1, <2>2
<1>4. Seqno(sock.seq + call.chunk) = Seqno(ISS + 1 + e)
  <2> DEFINE a == ISS + 1 + app_out
  <2>0. app_out \in Nat /\ call.chunk \in Nat /\ ISS \in Nat
    BY <1>1, Space
  <2>1. a \in Int /\ call.chunk \in Int /\ a + call.chunk = ISS + 1 + e
    BY <2>0
  <2>2. Seqno(Seqno(a) + call.chunk) = Seqno(a + call.chunk)
    <3> HIDE DEF a
    <3> QED BY Zenon, <2>1, SeqnoSum
  <2> QED BY <1>1, <2>1, <2>2
<1>5. Seqno(f.ack - Seqno(sock.seq + call.chunk)) = Seqno(k - e)
  <2> DEFINE a == ISS + 1 + k
             b == ISS + 1 + e
  <2>1. a \in Int /\ b \in Int /\ a - b = k - e
    BY <1>3, Space
  <2>2. f.ack = Seqno(a) /\ Seqno(sock.seq + call.chunk) = Seqno(b)
    BY <1>2, <1>4
  <2> HIDE DEF a, b
  <2>3. Seqno(a) \in Int /\ Seqno(b) \in Int
    BY Zenon, <2>1, SeqnoType
  <2>4. Seqno(Seqno(a) - Seqno(b)) = Seqno(Seqno(a) - b)
    BY <2>1, <2>3, SeqnoSum
  <2>5. Seqno(Seqno(a) + (-b)) = Seqno(a + (-b))
    BY <2>1, SeqnoSum
  <2>6. Seqno(a) + (-b) = Seqno(a) - b /\ a + (-b) = k - e
    BY <2>1, <2>3
  <2> QED BY <2>2, <2>4, <2>5, <2>6
<1>6. ~(Seqno(k - e) >= SeqSpace \div 2)
  BY <1>5 DEF Acknowledged, Before
<1> HIDE DEF g, e
<1>7. SUFFICES ASSUME e > g PROVE FALSE
  BY <1>3 DEF e, g
<1> DEFINE d == k - e
<1>8. d \in Int /\ d \in -SeqSpace..(-1) /\ d >= -OutN
  BY <1>3, <1>7, Space
<1>9. SeqSpace \div 2 \in Int /\ SeqSpace \in Nat /\ OutN \in Nat /\ SeqSpace - OutN >= SeqSpace \div 2
  <2> DEFINE h == SeqSpace \div 2
  <2>1. SeqSpace \in Nat /\ OutN \in Nat /\ InN \in Nat /\ SeqSpace > 2 * (OutN + InN + 2)
    BY Space
  <2>2. h \in Int /\ SeqSpace % 2 \in 0..1 /\ SeqSpace = 2 * h + (SeqSpace % 2)
    <3>1. 2 \in Nat \ {0} /\ SeqSpace \in Int
      BY <2>1
    <3> QED BY <3>1, Division
  <2> HIDE DEF h
  <2>3. SeqSpace - OutN >= h
    BY <2>1, <2>2
  <2> QED BY <2>1, <2>2, <2>3 DEF h
<1>10. ~(Seqno(d) >= SeqSpace \div 2)
  BY <1>6
<1> HIDE DEF d
<1>11. Seqno(d) = d + SeqSpace
  BY <1>8, SeqnoNear
<1> QED
  <2> DEFINE h == SeqSpace \div 2
  <2>1. ~(d + SeqSpace >= h) /\ h \in Int /\ SeqSpace - OutN >= h /\ SeqSpace \in Nat /\ OutN \in Nat
    BY <1>9, <1>10, <1>11
  <2> HIDE DEF h
  <2> QED BY <1>8, <2>1

LEMMA SendStep == ASSUME IInv, Send PROVE IInv'
<1>1. /\ call.op = "none" /\ sock.state = "CONNECTED" /\ ~sock.write_shutdown
      /\ UNCHANGED <<peer, app_in, app_out, eof>>
  BY DEF Send
<1>2. PICK n \in 1..MaxLen : app_out + n <= OutN /\ SendLoop(sock, n)
  BY DEF Send
<1>3. /\ Shape /\ OutInv /\ InInv /\ sock \in SockT /\ n \in Nat /\ app_out \in Nat
  BY Space DEF IInv, Shape
<1>4. /\ sock' = sock /\ call' \in CallT /\ (call'.op = "window" => sock.state = "CONNECTED")
      /\ call'.op \in {"none", "ack", "window"}
  BY <1>2, <1>3, SendLoopEffect
<1>5. OutInv' /\ net' \subseteq SegmentT
  <2>1. /\ app_out' \in Nat /\ app_out <= app_out' /\ app_out' <= Len(peer.got)
        /\ app_out' + n <= OutN /\ sock.seq = Seqno(ISS + 1 + app_out')
    BY <1>1, <1>2, <1>3 DEF OutInv
  <2> QED BY <1>1, <1>2, <1>3, <2>1, OutSend
<1>6. InInv'
  <2>1. RxInv(sock) /\ Synced(sock) /\ ~eof'
    BY <1>1, <1>3 DEF InInv
  <2> QED BY <1>1, <1>3, <1>4, <2>1, InFrame
<1> QED
  BY <1>1, <1>3, <1>4, <1>5, <1>6 DEF IInv, Shape

LEMMA AckFrameStep == ASSUME IInv, AckFrame PROVE IInv'
<1>1. call.op = "ack" /\ UNCHANGED <<peer, app_in, eof>>
  BY DEF AckFrame
<1>2. PICK f \in Frames :
        LET s == IF f.n > 0 THEN Store(Seen(f), f) ELSE Seen(f)
        IN  \/ /\ Acknowledged(f)
               /\ app_out' = app_out + call.chunk
               /\ SendLoop(Advanced(s), call.left - call.chunk)
            \/ /\ ~Acknowledged(f)
               /\ IF f.fin THEN Return(TakeFin(s, f)) ELSE Keep(s)
               /\ UNCHANGED <<net, app_out>>
  BY DEF AckFrame
<1> DEFINE s == IF f.n > 0 THEN Store(Seen(f), f) ELSE Seen(f)
<1>3. /\ Shape /\ OutInv /\ InInv
      /\ app_out \in Nat /\ call \in CallT /\ call.left \in Nat /\ call.chunk \in Nat
  BY DEF IInv, Shape, CallT
<1>4. /\ Kept(sock, s) /\ RxInv(s) /\ ~eof'
      /\ Synced(s) \/ Finished(s)
  <2>1. CASE f.n > 0
    <3>1. s = Store(Seen(f), f)
      BY <2>1
    <3> HIDE DEF s
    <3> QED BY <1>1, <2>1, <3>1, StoredInv, SeenInv
  <2>2. CASE ~(f.n > 0)
    <3>1. s = Seen(f)
      BY <2>2
    <3> HIDE DEF s
    <3> QED BY <1>1, <3>1, SeenInv
  <2> QED BY <2>1, <2>2
<1>5. \/ /\ Acknowledged(f)
         /\ app_out' = app_out + call.chunk
         /\ SendLoop(Advanced(s), call.left - call.chunk)
      \/ /\ ~Acknowledged(f)
         /\ IF f.fin THEN Return(TakeFin(s, f)) ELSE Keep(s)
         /\ UNCHANGED <<net, app_out>>
  BY Zenon, <1>2
<1> HIDE DEF s
<1>6. s \in SockT /\ s.seq = sock.seq /\ s.write_shutdown = sock.write_shutdown
      /\ s.state # "CREATED"
  BY <1>4 DEF Kept, Synced, Finished
<1>7. /\ app_out + call.left <= OutN /\ call.chunk <= call.left /\ ~sock.write_shutdown
      /\ sock.seq = Seqno(ISS + 1 + app_out)
  BY <1>1, <1>3 DEF OutInv, Sending
<1>8. CASE /\ Acknowledged(f)
           /\ app_out' = app_out + call.chunk
           /\ SendLoop(Advanced(s), call.left - call.chunk)
  <2> DEFINE t == Advanced(s)
             left == call.left - call.chunk
  <2>1. /\ t \in SockT /\ t.seq = Seqno(s.seq + call.chunk)
        /\ t.write_shutdown = s.write_shutdown /\ SameRx(s, t)
    BY <1>3, <1>6, AdvancedSock
  <2>2. left \in Nat /\ app_out' + left <= OutN /\ app_out' \in Nat /\ app_out <= app_out'
    BY <1>3, <1>7, <1>8, Space
  <2>3. app_out' <= Len(peer.got)
    BY <1>1, <1>8, AcknowledgedDelivered
  <2>4. t.seq = Seqno(ISS + 1 + app_out')
    <3> DEFINE a == ISS + 1 + app_out
    <3>1. a \in Int /\ call.chunk \in Int /\ a + call.chunk = ISS + 1 + app_out'
      BY <1>3, <1>8, Space
    <3>2. Seqno(Seqno(a) + call.chunk) = Seqno(a + call.chunk)
      <4> HIDE DEF a
      <4> QED BY Zenon, <3>1, SeqnoSum
    <3> QED BY <1>6, <1>7, <2>1, <3>1, <3>2
  <2>5. SendLoop(t, left)
    BY <1>8
  <2> HIDE DEF t, left
  <2>6. ~t.write_shutdown /\ t.state # "CREATED"
    BY <1>6, <1>7, <2>1 DEF SameRx
  <2>7. OutInv' /\ net' \subseteq SegmentT
    BY <1>1, <1>3, <1>7, <2>1, <2>2, <2>3, <2>4, <2>5, <2>6, OutSend
  <2>8. /\ sock' = t /\ call' \in CallT /\ (call'.op = "window" => t.state = "CONNECTED")
        /\ call'.op \in {"none", "ack", "window"}
    BY <2>1, <2>2, <2>5, SendLoopEffect
  <2>9. RxInv(t) /\ (Synced(t) \/ Finished(t))
    BY <1>4, <2>1 DEF SameRx, RxInv, Synced, Finished, Received
  <2>10. InInv'
    BY <1>1, <1>3, <1>4, <2>8, <2>9, InFrame
  <2> QED BY <1>1, <1>3, <2>1, <2>2, <2>7, <2>8, <2>10 DEF IInv, Shape
<1>9. CASE /\ ~Acknowledged(f)
           /\ IF f.fin THEN Return(TakeFin(s, f)) ELSE Keep(s)
           /\ UNCHANGED <<net, app_out>>
  <2>1. ASSUME NEW t, sock' = t, Kept(s, t), RxInv(t), t.state # "CREATED",
               \/ call' = call /\ t = s
               \/ call' = Idle /\ t.state = "CLOSED"
        PROVE  IInv'
    <3>1. t \in SockT /\ t.seq = sock.seq /\ t.write_shutdown = sock.write_shutdown
      BY <1>6, <2>1 DEF Kept
    <3>2. call' \in CallT /\ (call' = call \/ call'.op = "none")
      BY <1>3, <2>1, Calls
    <3>3. OutInv'
      <4>1. Sending /\ (Sending' => call' = call)
        BY <1>1, <3>2 DEF Sending
      <4>2. /\ sock'.seq = sock.seq /\ sock'.write_shutdown = sock.write_shutdown
            /\ sock'.state # "CREATED" /\ app_out' = app_out /\ net' = net /\ peer' = peer
        BY Zenon, <1>1, <1>9, <2>1, <3>1
      <4> QED BY <1>3, <4>1, <4>2, OutQuiet
    <3>4. InInv'
      <4>1. \/ Synced(t) \/ Finished(t) \/ (t.state = "CLOSED" /\ call'.op = "none")
        BY <1>4, <2>1, Calls
      <4>2. call'.op \in {"none", "ack"}
        BY <1>1, <3>2
      <4> QED BY <1>1, <1>3, <1>4, <2>1, <4>1, <4>2, InFrame
    <3> QED BY <1>1, <1>3, <1>9, <2>1, <3>1, <3>2, <3>3, <3>4 DEF IInv, Shape
  <2>2. CASE f.fin
    <3> DEFINE t == TakeFin(s, f)
    <3>1. Kept(s, t) /\ RxInv(t) /\ t.state = "CLOSED"
      BY <1>3, <1>4, <1>6, TakenInv
    <3>2. sock' = t /\ call' = Idle
      BY <1>9, <2>2 DEF Return
    <3> HIDE DEF t
    <3> QED BY <2>1, <3>1, <3>2
  <2>3. CASE ~f.fin
    <3>1. sock' = s /\ call' = call
      BY <1>9, <2>3 DEF Keep
    <3> QED BY <1>4, <1>6, <2>1, <3>1 DEF Kept
  <2> QED BY <2>2, <2>3
<1> QED
  BY <1>5, <1>8, <1>9

\* A wait that ends, or goes on as it was, without sending or reporting.
LEMMA OutKept ==
  ASSUME IInv, Kept(sock, sock'), app_out' = app_out, peer' = peer, net' \subseteq net,
         sock'.state # "CREATED",
         sock'.state = "CONNECTED" => Sending \/ sock.state = "CONNECTED",
         \/ call'.op = call.op /\ call'.left = call.left /\ call'.chunk = call.chunk
         \/ call'.op = "none" /\ (call.op = "fin" => sock'.state # "CONNECTED")
         \/ call.op = "none" /\ call'.op = "recv"
  PROVE  OutInv'
<1>1. Shape /\ OutInv
  BY DEF IInv
<1>2. sock'.seq = sock.seq /\ sock'.write_shutdown = sock.write_shutdown
  BY DEF Kept
<1>3. Sending' => Sending /\ call'.left = call.left /\ call'.chunk = call.chunk
  BY DEF Sending
<1>4. sock'.state = "CONNECTED" /\ call'.op # "fin" =>
        Sending \/ (sock.state = "CONNECTED" /\ call.op # "fin")
  OBVIOUS
<1> QED
  BY <1>1, <1>2, <1>3, <1>4, OutQuiet

LEMMA WindowFrameStep == ASSUME IInv, WindowFrame PROVE IInv'
<1>1. call.op = "window" /\ UNCHANGED <<peer, app_in, app_out, eof>>
  BY DEF WindowFrame
<1>2. PICK f \in Frames :
        LET s == IF f.n > 0 THEN Store(Seen(f), f)
                 ELSE IF f.fin THEN TakeFin(Seen(f), f) ELSE Seen(f)
        IN  \/ s.state = "CLOSED" /\ Return(s) /\ UNCHANGED net
            \/ s.state # "CLOSED" /\ s.window = 0 /\ Keep(s) /\ UNCHANGED net
            \/ s.state # "CLOSED" /\ s.window > 0 /\ SendLoop(s, call.left)
  BY DEF WindowFrame
<1> DEFINE s == IF f.n > 0 THEN Store(Seen(f), f)
                ELSE IF f.fin THEN TakeFin(Seen(f), f) ELSE Seen(f)
<1>3. /\ Shape /\ OutInv /\ InInv
      /\ app_out \in Nat /\ call \in CallT /\ call.left \in Nat /\ call.chunk \in Nat
  BY DEF IInv, Shape, CallT
<1>4. /\ Kept(sock, s) /\ RxInv(s)
      /\ Synced(s) \/ s.state = "CLOSED"
  <2>0. Kept(sock, Seen(f)) /\ RxInv(Seen(f)) /\ Seen(f) \in SockT
        /\ (Synced(Seen(f)) \/ Finished(Seen(f)))
    BY <1>1, SeenInv DEF Kept
  <2>1. CASE f.n > 0
    <3>1. s = Store(Seen(f), f)
      BY <2>1
    <3> HIDE DEF s
    <3> QED BY <1>1, <2>1, <3>1, StoredInv DEF Finished
  <2>2. CASE ~(f.n > 0) /\ f.fin
    <3>1. s = TakeFin(Seen(f), f)
      BY <2>2
    <3> HIDE DEF s
    <3> QED BY <1>3, <2>0, <3>1, TakenInv DEF Kept
  <2>3. CASE ~(f.n > 0) /\ ~f.fin
    <3>1. s = Seen(f)
      BY <2>3
    <3> HIDE DEF s
    <3> QED BY <2>0, <3>1 DEF Finished
  <2> QED BY <2>1, <2>2, <2>3
<1>5. \/ s.state = "CLOSED" /\ Return(s) /\ UNCHANGED net
      \/ s.state # "CLOSED" /\ s.window = 0 /\ Keep(s) /\ UNCHANGED net
      \/ s.state # "CLOSED" /\ s.window > 0 /\ SendLoop(s, call.left)
  BY Zenon, <1>2
<1> HIDE DEF s
<1>6. s \in SockT /\ s.seq = sock.seq /\ s.write_shutdown = sock.write_shutdown
      /\ s.state # "CREATED"
  BY <1>4 DEF Kept, Synced
<1>7. /\ app_out + call.left <= OutN /\ call.chunk <= call.left /\ ~sock.write_shutdown
      /\ sock.seq = Seqno(ISS + 1 + app_out) /\ sock.state = "CONNECTED" /\ ~eof
      /\ app_out <= Len(peer.got)
  BY Zenon, <1>1, <1>3 DEF OutInv, InInv, Sending
<1>8. CASE \/ s.state = "CLOSED" /\ Return(s) /\ UNCHANGED net
           \/ s.state # "CLOSED" /\ s.window = 0 /\ Keep(s) /\ UNCHANGED net
  <2>1. /\ sock' = s /\ net' = net /\ call' \in CallT
        /\ \/ s.state = "CLOSED" /\ call'.op = "none"
           \/ s.state # "CLOSED" /\ call' = call
    BY <1>3, <1>8, Calls DEF Return, Keep
  <2>2. OutInv'
    <3>1. Kept(sock, sock') /\ sock'.state # "CREATED" /\ net' \subseteq net
      BY <1>4, <1>6, <2>1
    <3> QED BY <1>1, <1>7, <2>1, <3>1, OutKept
  <2>3. InInv'
    <3>1. \/ call'.op = "none"
          \/ call'.op = "window" /\ s.state = "CONNECTED"
      BY <1>1, <1>4, <2>1 DEF Synced
    <3>2. Synced(s) \/ (s.state = "CLOSED" /\ call'.op = "none")
      BY <1>4, <2>1
    <3> QED BY <1>1, <1>3, <1>4, <1>7, <2>1, <3>1, <3>2, InFrame
  <2> QED BY <1>1, <1>3, <1>6, <2>1, <2>2, <2>3 DEF IInv, Shape
<1>9. CASE s.state # "CLOSED" /\ s.window > 0 /\ SendLoop(s, call.left)
  <2>1. /\ sock' = s /\ call' \in CallT /\ (call'.op = "window" => s.state = "CONNECTED")
        /\ call'.op \in {"none", "ack", "window"}
    BY <1>3, <1>6, <1>9, SendLoopEffect
  <2>2. OutInv' /\ net' \subseteq SegmentT
    <3>1. /\ app_out' \in Nat /\ app_out <= app_out' /\ app_out' <= Len(peer.got)
          /\ app_out' + call.left <= OutN /\ s.seq = Seqno(ISS + 1 + app_out')
      BY <1>1, <1>3, <1>6, <1>7
    <3> QED BY <1>1, <1>3, <1>6, <1>7, <1>9, <3>1, OutSend
  <2>3. InInv'
    <3>1. Synced(s) /\ ~eof'
      BY <1>1, <1>4, <1>7, <1>9
    <3> QED BY <1>1, <1>3, <1>4, <2>1, <3>1, InFrame
  <2> QED BY <1>1, <1>3, <1>6, <2>1, <2>2, <2>3 DEF IInv, Shape
<1> QED
  BY <1>5, <1>8, <1>9

LEMMA FinFrameStep == ASSUME IInv, FinFrame PROVE IInv'
<1>1. call.op = "fin" /\ UNCHANGED <<net, peer, app_in, app_out, eof>>
  BY DEF FinFrame
<1>2. PICK f \in Frames :
        LET s == IF f.n > 0 THEN Store(Seen(f), f)
                 ELSE IF f.fin THEN TakeFin(Seen(f), f)
                 ELSE IF f.ack = sock.seq THEN Closed(Seen(f)) ELSE Seen(f)
        IN  IF s.state = "CLOSED" THEN Return(s) ELSE Keep(s)
  BY DEF FinFrame
<1> DEFINE s == IF f.n > 0 THEN Store(Seen(f), f)
                ELSE IF f.fin THEN TakeFin(Seen(f), f)
                ELSE IF f.ack = sock.seq THEN Closed(Seen(f)) ELSE Seen(f)
<1>3. /\ Shape /\ OutInv /\ InInv /\ call \in CallT
  BY DEF IInv, Shape
<1>4. /\ Kept(sock, s) /\ RxInv(s)
      /\ Synced(s) \/ s.state = "CLOSED"
  <2>0. Kept(sock, Seen(f)) /\ RxInv(Seen(f)) /\ Seen(f) \in SockT
        /\ (Synced(Seen(f)) \/ Finished(Seen(f)))
    BY <1>1, SeenInv DEF Kept
  <2>1. CASE f.n > 0
    <3>1. s = Store(Seen(f), f)
      BY <2>1
    <3> HIDE DEF s
    <3> QED BY <1>1, <2>1, <3>1, StoredInv DEF Finished
  <2>2. CASE ~(f.n > 0) /\ f.fin
    <3>1. s = TakeFin(Seen(f), f)
      BY <2>2
    <3> HIDE DEF s
    <3> QED BY <1>3, <2>0, <3>1, TakenInv DEF Kept
  <2>3. CASE ~(f.n > 0) /\ ~f.fin /\ f.ack = sock.seq
    <3>1. s = Closed(Seen(f))
      BY <2>3
    <3> HIDE DEF s
    <3>2. /\ Kept(Seen(f), s) /\ s.state = "CLOSED"
          /\ s.rx = Seen(f).rx /\ s.off = Seen(f).off
      BY <2>0, <3>1, ClosedSock
    <3> QED BY <2>0, <3>2 DEF Kept, RxInv, Received
  <2>4. CASE ~(f.n > 0) /\ ~f.fin /\ f.ack # sock.seq
    <3>1. s = Seen(f)
      BY <2>4
    <3> HIDE DEF s
    <3> QED BY <2>0, <3>1 DEF Finished
  <2> QED BY Zenon, <2>1, <2>2, <2>3, <2>4
<1>5. IF s.state = "CLOSED" THEN Return(s) ELSE Keep(s)
  BY Zenon, <1>2
<1> HIDE DEF s
<1>6. /\ sock' = s /\ call' \in CallT
      /\ \/ s.state = "CLOSED" /\ call'.op = "none"
         \/ s.state # "CLOSED" /\ call' = call
  BY <1>3, <1>5, Calls DEF Return, Keep
<1>7. s \in SockT /\ s.state # "CREATED" /\ sock.state = "CONNECTED" /\ ~eof
  BY <1>1, <1>3, <1>4 DEF Kept, Synced, InInv
<1>8. OutInv'
  <2>1. Kept(sock, sock') /\ sock'.state # "CREATED" /\ net' \subseteq net
    BY <1>1, <1>4, <1>6, <1>7
  <2> QED BY <1>1, <1>6, <1>7, <2>1, OutKept
<1>9. InInv'
  <2>1. \/ call'.op = "none"
        \/ call'.op = "fin" /\ s.state = "CONNECTED"
    BY <1>1, <1>4, <1>6 DEF Synced
  <2>2. Synced(s) \/ (s.state = "CLOSED" /\ call'.op = "none")
    BY <1>4, <1>6
  <2> QED BY <1>1, <1>3, <1>4, <1>6, <1>7, <2>1, <2>2, InFrame
<1> QED
  BY <1>1, <1>3, <1>6, <1>7, <1>8, <1>9 DEF IInv, Shape
=============================================================================
