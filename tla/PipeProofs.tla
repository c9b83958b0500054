---------------------------- MODULE PipeProofs ----------------------------
(***************************************************************************)
(* The pipe is a byte stream, for every number of processes, every ring    *)
(* size and every length of call.  The inductive invariant says that the   *)
(* positions agree with the number of bytes in the ring and that a process *)
(* in a call, restarted or not, still holds the end it called.             *)
(***************************************************************************)
EXTENDS Pipe, SequenceTheorems, TLAPS

Agree == write_pos = (read_pos + size) % Size
HoldsEnd ==
  \A p \in Procs : /\ call[p] \in ReadCalls => p \in readers
                   /\ call[p] \in WriteCalls => p \in writers
IInv == TypeOK /\ Agree /\ HoldsEnd

-----------------------------------------------------------------------------
(***************************************************************************)
(* Positions, calls and sequences.                                         *)
(***************************************************************************)
\* A position moved forward by at most the size of the ring, and the distance
\* between two positions.
LEMMA Wrap ==
  ASSUME NEW r \in 0 .. Size - 1
  PROVE  /\ \A n \in 0 .. Size : (r + n) % Size = IF r + n < Size THEN r + n ELSE r + n - Size
         /\ \A i \in 0 .. Size - 1 : (i - r) % Size = IF r <= i THEN i - r ELSE i - r + Size
<1>1. ASSUME NEW n \in 0 .. Size
      PROVE  (r + n) % Size = IF r + n < Size THEN r + n ELSE r + n - Size
  <2>1. CASE r + n < Size
    BY <2>1, SizeAssumption
  <2>2. CASE r + n >= Size
    BY <2>2, SizeAssumption
  <2> QED BY <2>1, <2>2, SizeAssumption
<1>2. ASSUME NEW i \in 0 .. Size - 1
      PROVE  (i - r) % Size = IF r <= i THEN i - r ELSE i - r + Size
  <2>1. CASE r <= i
    BY <2>1, SizeAssumption
  <2>2. CASE r > i
    BY <2>2, SizeAssumption
  <2> QED BY <2>1, <2>2, SizeAssumption
<1> QED BY <1>1, <1>2

\* The four kinds of prepared calls are told apart by their fields.
LEMMA Kinds ==
  /\ \A c \in ReadCalls : /\ c.nr = "read" /\ c.end = "reader" /\ c.arg \in 0 .. MaxLen
                          /\ c \notin WriteCalls /\ c # NoCall /\ c # Misnamed
  /\ \A c \in WriteCalls : /\ c.nr = "write" /\ c.end = "writer" /\ c.arg \in Data
                           /\ c \notin ReadCalls /\ c # NoCall /\ c # Misnamed
  /\ NoCall \notin ReadCalls \cup WriteCalls /\ NoCall # Misnamed
  /\ Misnamed \notin ReadCalls \cup WriteCalls
<1>1. NoCall.nr = "none" /\ Misnamed.nr = "read" /\ Misnamed.end = "writer"
  BY DEF NoCall, Misnamed
<1>2. \A c \in ReadCalls : c.nr = "read" /\ c.end = "reader" /\ c.arg \in 0 .. MaxLen
  BY DEF ReadCalls
<1>3. \A c \in WriteCalls : c.nr = "write" /\ c.end = "writer" /\ c.arg \in Data
  BY DEF WriteCalls
<1> QED BY <1>1, <1>2, <1>3

\* What a call offers is a sequence of values.
LEMMA DataIsSeq == ASSUME NEW d \in Data PROVE d \in Seq(Values)
BY SizeAssumption DEF Data

\* n bytes of a ring b from position r on.
Bytes(b, r, n) == [i \in 1 .. n |-> b[(r + i - 1) % Size]]

\* The bytes in a ring are a sequence as long as their count says.
LEMMA RingIsSeq ==
  ASSUME NEW b \in [0 .. Size - 1 -> Values], NEW r \in 0 .. Size - 1, NEW n \in 0 .. Size
  PROVE  /\ Bytes(b, r, n) \in Seq(Values) /\ Len(Bytes(b, r, n)) = n
         /\ \A i \in 1 .. n : Bytes(b, r, n)[i] = b[(r + i - 1) % Size]
<1>1. ASSUME NEW i \in 1 .. n PROVE b[(r + i - 1) % Size] \in Values
  <2>1. i - 1 \in 0 .. Size /\ r + i - 1 = r + (i - 1)
    BY SizeAssumption
  <2>2. (r + i - 1) % Size \in 0 .. Size - 1
    BY <2>1, Wrap, SizeAssumption
  <2> QED BY <2>2
<1>2. n \in Nat
  BY SizeAssumption
<1> QED BY <1>1, <1>2 DEF Bytes

-----------------------------------------------------------------------------
(***************************************************************************)
(* The invariant.                                                          *)
(***************************************************************************)
\* A fresh pipe satisfies the invariant.
LEMMA PipeInit == Init => IInv
<1> SUFFICES ASSUME Init PROVE IInv
  OBVIOUS
<1>1. Blank \in Values
  BY ValuesAssumption DEF Blank
<1>2. TypeOK
  BY <1>1, SizeAssumption DEF Init, TypeOK
<1>3. Agree
  BY SizeAssumption DEF Init, Agree
<1>4. HoldsEnd
  BY Kinds DEF Init, HoldsEnd
<1> QED BY <1>2, <1>3, <1>4 DEF IInv

\* A step that keeps the ring keeps its positions in agreement.
LEMMA RingKept == IInv /\ UNCHANGED ring => Agree'
BY DEF IInv, Agree, ring

\* Clearing the ring, or keeping it, leaves a ring whose positions agree.
LEMMA HoldKeeps ==
  ASSUME TypeOK, Agree, NEW rs, NEW ws, Hold(rs, ws)
  PROVE  /\ buffer' \in [0 .. Size - 1 -> Values]
         /\ read_pos' \in 0 .. Size - 1 /\ write_pos' \in 0 .. Size - 1 /\ size' \in 0 .. Size
         /\ Agree'
<1>1. CASE rs = {} /\ ws = {}
  <2>1. Blank \in Values
    BY ValuesAssumption DEF Blank
  <2> QED BY <1>1, <2>1, SizeAssumption DEF Hold, Agree
<1>2. CASE ~(rs = {} /\ ws = {})
  BY <1>2 DEF Hold, TypeOK, Agree, ring
<1> QED BY <1>1, <1>2

\* sys_read keeps the invariant: n bytes fewer, and the read position n further.
LEMMA ReadKeeps == IInv /\ Read => IInv'
<1> SUFFICES ASSUME IInv, Read PROVE IInv'
  OBVIOUS
<1> DEFINE n == Least(call[current].arg, size)
<1>1. n \in 0 .. size /\ size \in 0 .. Size /\ n \in 0 .. Size
  BY Kinds, SizeAssumption DEF Read, IInv, TypeOK, Least
<1>2. /\ read_pos' = (read_pos + n) % Size /\ size' = size - n
      /\ buffer' = buffer /\ write_pos' = write_pos
  BY DEF Read
<1>3. \E v \in {"bytes", "nothing", "end"} : Return(v)
  BY DEF Read
<1>4. read_pos \in 0 .. Size - 1 /\ write_pos = (read_pos + size) % Size
  BY DEF IInv, TypeOK, Agree
<1> HIDE DEF n
<1>5. read_pos' = IF read_pos + n < Size THEN read_pos + n ELSE read_pos + n - Size
  BY <1>1, <1>2, <1>4, Wrap, SizeAssumption, Zenon
<1>6. read_pos' \in 0 .. Size - 1 /\ size' \in 0 .. Size
  BY <1>1, <1>2, <1>4, <1>5, SizeAssumption
<1>7. TypeOK'
  BY <1>2, <1>3, <1>6 DEF IInv, TypeOK, Return, ends
<1>8. Agree'
  <2>1. write_pos = IF read_pos + size < Size THEN read_pos + size ELSE read_pos + size - Size
    BY <1>1, <1>4, Wrap
  <2>2. size' = size - n /\ read_pos \in 0 .. Size - 1
    BY <1>2, <1>4
  <2>3. write_pos =
          IF read_pos' + size' < Size THEN read_pos' + size' ELSE read_pos' + size' - Size
    BY <1>1, <1>5, <2>1, <2>2, SizeAssumption
  <2>4. (read_pos' + size') % Size =
          IF read_pos' + size' < Size THEN read_pos' + size' ELSE read_pos' + size' - Size
    BY <1>6, Wrap
  <2> QED BY <1>2, <2>3, <2>4 DEF Agree
<1>9. HoldsEnd'
  BY <1>3, Kinds DEF IInv, TypeOK, HoldsEnd, Return, ends
<1> QED BY <1>7, <1>8, <1>9 DEF IInv

\* What RoomFor lets in fits the ring and is not more than was offered.
LEMMA RoomFits ==
  ASSUME TypeOK, NEW d \in Data
  PROVE  RoomFor(d) \in 0 .. Size - size /\ RoomFor(d) <= Len(d) /\ RoomFor(d) \in 0 .. Size
<1>1. Len(d) \in Nat
  BY DataIsSeq
<1> QED BY <1>1, SizeAssumption DEF TypeOK, RoomFor, Least

\* sys_write keeps the invariant: n bytes more, and the write position n further.
LEMMA WriteKeeps == IInv /\ Write => IInv'
<1> SUFFICES ASSUME IInv, Write PROVE IInv'
  OBVIOUS
<1> DEFINE d == call[current].arg
           n == RoomFor(d)
           at(i) == ((i - write_pos) % Size) + 1
<1>1. /\ write_pos' = (write_pos + n) % Size /\ size' = size + n /\ read_pos' = read_pos
      /\ buffer' = [i \in 0 .. Size - 1 |-> IF at(i) <= n THEN d[at(i)] ELSE buffer[i]]
  BY DEF Write
<1>2. \E v \in {"bytes", "nothing"} : Return(v)
  BY DEF Write
<1>3. d \in Data
  BY Kinds DEF Write
<1>4. n \in 0 .. Size - size /\ n <= Len(d) /\ n \in 0 .. Size
  BY <1>3, RoomFits DEF IInv
<1>5. /\ read_pos \in 0 .. Size - 1 /\ write_pos \in 0 .. Size - 1 /\ size \in 0 .. Size
      /\ write_pos = (read_pos + size) % Size
  BY DEF IInv, TypeOK, Agree
<1>6. buffer' \in [0 .. Size - 1 -> Values]
  <2> SUFFICES ASSUME NEW i \in 0 .. Size - 1
               PROVE  (IF at(i) <= n THEN d[at(i)] ELSE buffer[i]) \in Values
    BY <1>1
  <2>1. at(i) \in 1 .. Size
    BY <1>5, Wrap, SizeAssumption
  <2>2. buffer[i] \in Values
    BY DEF IInv, TypeOK
  <2>3. d \in Seq(Values) /\ Len(d) \in Nat
    BY <1>3, DataIsSeq
  <2> HIDE DEF at, d, n
  <2>4. ASSUME at(i) <= n PROVE d[at(i)] \in Values
    <3>1. at(i) \in 1 .. Len(d)
      BY <1>4, <2>1, <2>3, <2>4, SizeAssumption
    <3> QED BY <2>3, <3>1, ElementOfSeq
  <2> QED BY <2>2, <2>4
<1> HIDE DEF n, d
<1>7. write_pos' = IF write_pos + n < Size THEN write_pos + n ELSE write_pos + n - Size
  BY <1>1, <1>4, <1>5, Wrap, Zenon
<1>8. write_pos' \in 0 .. Size - 1 /\ size' \in 0 .. Size
  BY <1>1, <1>4, <1>5, <1>7, SizeAssumption
<1>9. TypeOK'
  BY <1>1, <1>2, <1>6, <1>8 DEF IInv, TypeOK, Return, ends
<1>10. Agree'
  <2>1. write_pos = IF read_pos + size < Size THEN read_pos + size ELSE read_pos + size - Size
    BY <1>5, Wrap
  <2>2. (read_pos + size') % Size =
          IF read_pos + size' < Size THEN read_pos + size' ELSE read_pos + size' - Size
    BY <1>5, <1>8, Wrap
  <2>3. (read_pos + size') % Size = write_pos'
    BY <1>1, <1>4, <1>5, <1>7, <2>1, <2>2, SizeAssumption, SMTT(30)
  <2> QED BY <1>1, <2>3 DEF Agree
<1>11. HoldsEnd'
  BY <1>2, Kinds DEF IInv, TypeOK, HoldsEnd, Return, ends
<1> QED BY <1>9, <1>10, <1>11 DEF IInv

\* A blocked call, and a call refused, keep the ring and the ends.
LEMMA WaitKeeps == IInv /\ (ReadBlocks \/ WriteBlocks \/ ReadOfWriter) => IInv'
<1> SUFFICES ASSUME IInv, ReadBlocks \/ WriteBlocks \/ ReadOfWriter PROVE IInv'
  OBVIOUS
<1>1. UNCHANGED ring /\ UNCHANGED ends
  BY DEF ReadBlocks, WriteBlocks, ReadOfWriter, BlockAndSwitch, BlockAlone, Return, ends
<1>2. \A p \in Procs : call'[p] \in {call[p], NoCall, Misnamed}
  BY Kinds DEF IInv, TypeOK, ReadBlocks, WriteBlocks, ReadOfWriter, BlockAndSwitch, BlockAlone, Return
<1>3. TypeOK'
  <2>1. CASE BlockAndSwitch
    BY <1>1, <2>1 DEF IInv, TypeOK, BlockAndSwitch, StatusAfterSwitch, Others, ring, ends
  <2>2. CASE BlockAlone
    BY <1>1, <2>2 DEF IInv, TypeOK, BlockAlone, ring, ends
  <2>3. CASE ReadOfWriter
    BY <1>1, <2>3 DEF IInv, TypeOK, ReadOfWriter, Return, ring, ends
  <2> QED BY <2>1, <2>2, <2>3 DEF ReadBlocks, WriteBlocks
<1>4. HoldsEnd'
  BY <1>1, <1>2, Kinds DEF IInv, HoldsEnd, ends
<1> QED BY <1>1, <1>3, <1>4, RingKept DEF IInv

\* User code that prepares a call holds the end.
LEMMA IssueKeeps ==
  ASSUME IInv, NEW c \in ReadCalls \cup WriteCalls, Issue(c)
  PROVE  IInv'
<1>1. TypeOK'
  BY DEF IInv, TypeOK, Issue, ring, ends
<1>2. HoldsEnd'
  BY Kinds DEF IInv, TypeOK, HoldsEnd, Issue, ends
<1>3. Agree'
  BY RingKept DEF Issue
<1> QED BY <1>1, <1>2, <1>3 DEF IInv

\* Ends appear with sys_pipe and sys_fork, for processes that are in no call.
LEMMA GainKeeps ==
  ASSUME IInv, Create \/ \E q \in Procs : Fork(q)
  PROVE  IInv'
<1>1. CASE Create
  <2>1. TypeOK'
    BY <1>1 DEF IInv, TypeOK, Create, ring
  <2>2. HoldsEnd'
    BY <1>1 DEF IInv, HoldsEnd, Create
  <2> QED BY <1>1, <2>1, <2>2, RingKept DEF IInv, Create
<1>2. ASSUME NEW q \in Procs, Fork(q) PROVE IInv'
  <2>1. TypeOK'
    BY <1>2 DEF IInv, TypeOK, Fork, ring
  <2>2. HoldsEnd'
    BY <1>2 DEF IInv, HoldsEnd, Fork
  <2> QED BY <1>2, <2>1, <2>2, RingKept DEF IInv, Fork
<1> QED BY <1>1, <1>2

\* Ends go with sys_close and with the process, which is then in no call.
LEMMA LossKeeps ==
  ASSUME IInv, (\E end \in {"reader", "writer"} : Close(end)) \/ \E q \in Procs : Kill(q)
  PROVE  IInv'
<1>1. ASSUME NEW end \in {"reader", "writer"}, Close(end) PROVE IInv'
  <2>1. PICK rs \in SUBSET readers, ws \in SUBSET writers :
          Hold(rs, ws) /\ readers \ {current} \subseteq rs /\ writers \ {current} \subseteq ws
    BY <1>1 DEF Close
  <2>2. readers' = rs /\ writers' = ws
    BY <2>1 DEF Hold
  <2>3. TypeOK' /\ Agree'
    BY <1>1, <2>1, <2>2, HoldKeeps DEF IInv, TypeOK, Close
  <2>4. HoldsEnd'
    BY <1>1, <2>1, <2>2, Kinds DEF IInv, HoldsEnd, Close
  <2> QED BY <2>3, <2>4 DEF IInv
<1>2. ASSUME NEW q \in Procs, Kill(q) PROVE IInv'
  <2>1. Hold(readers \ {q}, writers \ {q})
    BY <1>2 DEF Kill
  <2>2. readers' = readers \ {q} /\ writers' = writers \ {q}
    BY <2>1 DEF Hold
  <2>3. TypeOK' /\ Agree'
    BY <1>2, <2>1, <2>2, HoldKeeps DEF IInv, TypeOK, Kill
  <2>4. HoldsEnd'
    BY <1>2, <2>2, Kinds DEF IInv, TypeOK, HoldsEnd, Kill
  <2> QED BY <2>3, <2>4 DEF IInv
<1> QED BY <1>1, <1>2

\* The scheduler touches neither the pipe nor the calls.
LEMMA SwitchKeeps ==
  ASSUME IInv, \E q \in Procs : Pause(q) \/ Preempt(q)
  PROVE  IInv'
<1>1. TypeOK'
  BY DEF IInv, TypeOK, Pause, Preempt, Others, ring, ends
<1>2. HoldsEnd'
  BY DEF IInv, HoldsEnd, Pause, Preempt, ends
<1> QED BY <1>1, <1>2, RingKept DEF IInv, Pause, Preempt

\* The positions of the ring agree with the count, and a process in a call holds
\* its end, whatever the order of calls, restarts, forks, kills and switches.
LEMMA PipeInvariance == Spec => []IInv
<1>1. IInv /\ [Next]_vars => IInv'
  <2> SUFFICES ASSUME IInv, [Next]_vars PROVE IInv'
    OBVIOUS
  <2>1. CASE UNCHANGED vars
    BY <2>1 DEF vars, ring, ends, IInv, TypeOK, Agree, HoldsEnd
  <2>2. CASE Next
    BY <2>2, ReadKeeps, WriteKeeps, WaitKeeps, IssueKeeps, GainKeeps, LossKeeps, SwitchKeeps
       DEF Next, Execute
  <2> QED BY <2>1, <2>2
<1> QED BY <1>1, PipeInit, PTL DEF Spec

-----------------------------------------------------------------------------
(***************************************************************************)
(* Refinement of ByteStream.                                               *)
(***************************************************************************)
\* An empty ring holds the empty sequence.
LEMMA EmptyContents == ASSUME size = 0 PROVE Contents = <<>>
BY DEF Contents

\* What processes offer changes with the calls that write.
LEMMA OfferedAt ==
  ASSUME TypeOK, NEW p \in Procs, NEW c, call' = [call EXCEPT ![p] = c]
  PROVE  Offered' = [Offered EXCEPT ![p] = IF c \in WriteCalls THEN c.arg ELSE <<>>]
BY Zenon DEF TypeOK, Offered

\* Who was told the end changes with the answers.
LEMMA ToldAt ==
  ASSUME TypeOK, NEW p \in Procs, NEW v, answer' = [answer EXCEPT ![p] = v]
  PROVE  (v = "end" => Told' = Told \cup {p}) /\ (v # "end" => Told' = Told \ {p})
BY DEF TypeOK, Told

\* A process that is in no write offers nothing.
LEMMA OffersNothing ==
  ASSUME TypeOK, NEW p \in Procs, call[p] \notin WriteCalls
  PROVE  [Offered EXCEPT ![p] = <<>>] = Offered
BY DEF TypeOK, Offered

\* Reading takes bytes from the front of the sequence.
LEMMA ReadTakes ==
  ASSUME IInv, Read
  PROVE  LET n == Least(call[current].arg, size) IN
         n \in 0 .. size /\ Contents' = SubSeq(Contents, n + 1, Len(Contents))
<1> DEFINE n == Least(call[current].arg, size)
           rest == SubSeq(Contents, n + 1, Len(Contents))
<1>1. n \in 0 .. size /\ size \in 0 .. Size
  BY Kinds, SizeAssumption DEF Read, IInv, TypeOK, Least
<1>2. /\ read_pos' = (read_pos + n) % Size /\ size' = size - n
      /\ buffer' = buffer /\ write_pos' = write_pos
  BY DEF Read
<1>3. TypeOK /\ TypeOK' /\ read_pos \in 0 .. Size - 1
  BY ReadKeeps DEF IInv, TypeOK
<1> HIDE DEF n
<1>0. Contents = Bytes(buffer, read_pos, size) /\ Contents' = Bytes(buffer', read_pos', size')
  BY DEF Contents, Bytes
<1>4. /\ Contents \in Seq(Values) /\ Len(Contents) = size
      /\ \A i \in 1 .. size : Contents[i] = buffer[(read_pos + i - 1) % Size]
  <2>1. buffer \in [0 .. Size - 1 -> Values] /\ read_pos \in 0 .. Size - 1 /\ size \in 0 .. Size
    BY <1>3 DEF TypeOK
  <2> QED BY <1>0, <2>1, RingIsSeq, Zenon
<1>5. /\ Contents' \in Seq(Values) /\ Len(Contents') = size'
      /\ \A i \in 1 .. size' : Contents'[i] = buffer'[(read_pos' + i - 1) % Size]
  <2>1. buffer' \in [0 .. Size - 1 -> Values] /\ read_pos' \in 0 .. Size - 1 /\ size' \in 0 .. Size
    BY <1>3 DEF TypeOK
  <2> QED BY <1>0, <2>1, RingIsSeq, Zenon
<1>6. /\ rest \in Seq(Values) /\ Len(rest) = size - n
      /\ \A i \in 1 .. size - n : rest[i] = Contents[n + i]
  <2>1. n + 1 \in Int /\ size \in Int /\ \A i \in n + 1 .. size : Contents[i] \in Values
    BY <1>1, <1>4, ElementOfSeq, SizeAssumption
  <2>2. rest = SubSeq(Contents, n + 1, size)
    BY <1>4
  <2>3. /\ rest \in Seq(Values)
        /\ Len(rest) = IF n + 1 <= size THEN size - (n + 1) + 1 ELSE 0
        /\ \A i \in 1 .. size - (n + 1) + 1 : rest[i] = Contents[(n + 1) + i - 1]
    BY <2>1, <2>2, SubSeqProperties, SMTT(30)
  <2> HIDE DEF rest
  <2>4. size - (n + 1) + 1 = size - n /\ \A i \in 1 .. size - n : (n + 1) + i - 1 = n + i
    BY <1>1
  <2>5. Len(rest) = size - n
    BY <1>1, <2>3
  <2> QED BY <2>3, <2>4, <2>5
<1> HIDE DEF rest
<1>7. ASSUME NEW i \in 1 .. size - n PROVE Contents'[i] = rest[i]
  <2>1. (read_pos' + i - 1) % Size = (read_pos + (n + i) - 1) % Size
    <3>1. /\ i - 1 \in 0 .. Size /\ n + i - 1 \in 0 .. Size /\ n \in 0 .. Size
          /\ read_pos' \in 0 .. Size - 1
      BY <1>1, <1>3, SizeAssumption DEF TypeOK
    <3>2. read_pos' = IF read_pos + n < Size THEN read_pos + n ELSE read_pos + n - Size
      BY <1>2, <1>3, <3>1, Wrap
    <3>3. (read_pos' + (i - 1)) % Size =
            IF read_pos' + (i - 1) < Size THEN read_pos' + (i - 1) ELSE read_pos' + (i - 1) - Size
      BY <3>1, Wrap
    <3>4. (read_pos + (n + i - 1)) % Size =
            IF read_pos + (n + i - 1) < Size THEN read_pos + (n + i - 1)
                                             ELSE read_pos + (n + i - 1) - Size
      BY <1>3, <3>1, Wrap
    <3>5. /\ read_pos' + i - 1 = read_pos' + (i - 1)
          /\ read_pos + (n + i) - 1 = read_pos + (n + i - 1)
      BY <1>1, <1>3, <3>1
    <3>6. (IF read_pos' + (i - 1) < Size THEN read_pos' + (i - 1) ELSE read_pos' + (i - 1) - Size)
          = IF read_pos + (n + i - 1) < Size THEN read_pos + (n + i - 1)
                                             ELSE read_pos + (n + i - 1) - Size
      BY <1>1, <1>3, <3>1, <3>2, SizeAssumption
    <3> QED BY <3>3, <3>4, <3>5, <3>6
  <2>2. n + i \in 1 .. size /\ i \in 1 .. size'
    BY <1>1, <1>2
  <2> QED BY <1>2, <1>4, <1>5, <1>6, <2>1, <2>2, ZenonT(60)
<1>8. Contents' = rest
  BY <1>1, <1>2, <1>5, <1>6, <1>7, SeqEqual
<1> QED BY <1>1, <1>8 DEF n, rest

\* Writing appends the front of what is offered.
LEMMA WritePuts ==
  ASSUME IInv, Write
  PROVE  LET d == call[current].arg IN
         Contents' = Contents \o SubSeq(d, 1, RoomFor(d)) /\ Len(Contents') <= Size
<1> DEFINE d == call[current].arg
           n == RoomFor(d)
           at(i) == ((i - write_pos) % Size) + 1
           front == SubSeq(d, 1, n)
           long == Contents \o front
           place(i) == (read_pos + i - 1) % Size
<1>1. /\ write_pos' = (write_pos + n) % Size /\ size' = size + n /\ read_pos' = read_pos
      /\ \A i \in 0 .. Size - 1 : buffer'[i] = IF at(i) <= n THEN d[at(i)] ELSE buffer[i]
  BY DEF Write
<1>2. d \in Data
  BY Kinds DEF Write
<1>3. n \in 0 .. Size - size /\ n <= Len(d) /\ n \in 0 .. Size /\ d \in Seq(Values)
  BY <1>2, RoomFits, DataIsSeq DEF IInv
<1>4. TypeOK /\ TypeOK' /\ Agree
  BY WriteKeeps DEF IInv
<1>5. read_pos \in 0 .. Size - 1 /\ write_pos \in 0 .. Size - 1 /\ size \in 0 .. Size
  BY <1>4 DEF TypeOK
<1> HIDE DEF n, d, at
<1>0. Contents = Bytes(buffer, read_pos, size) /\ Contents' = Bytes(buffer', read_pos', size')
  BY DEF Contents, Bytes
<1>6. /\ Contents \in Seq(Values) /\ Len(Contents) = size
      /\ \A i \in 1 .. size : Contents[i] = buffer[place(i)]
  <2>1. buffer \in [0 .. Size - 1 -> Values]
    BY <1>4 DEF TypeOK
  <2> QED BY <1>0, <1>5, <2>1, RingIsSeq, Zenon
<1>7. /\ Contents' \in Seq(Values) /\ Len(Contents') = size + n
      /\ \A i \in 1 .. size + n : Contents'[i] = buffer'[place(i)]
  <2>1. buffer' \in [0 .. Size - 1 -> Values] /\ size + n \in 0 .. Size
    BY <1>1, <1>4 DEF TypeOK
  <2>2. Contents' = Bytes(buffer', read_pos, size + n)
    BY <1>0, <1>1
  <2> QED BY <1>5, <2>1, <2>2, RingIsSeq, Zenon
<1>8. /\ front \in Seq(Values) /\ Len(front) = n
      /\ \A i \in 1 .. n : front[i] = d[i]
  BY <1>3, <1>5, SizeAssumption
<1> HIDE DEF front
<1>9. /\ long \in Seq(Values) /\ Len(long) = size + n
      /\ \A i \in 1 .. size + n : long[i] = IF i <= size THEN Contents[i] ELSE front[i - size]
  BY <1>3, <1>5, <1>6, <1>8, SizeAssumption, ConcatProperties, ZenonT(60)
<1>10. ASSUME NEW i \in 1 .. size + n
       PROVE  place(i) \in 0 .. Size - 1 /\ at(place(i)) = IF i <= size THEN Size - size + i ELSE i - size
  <2>1. /\ i - 1 \in 0 .. Size /\ read_pos + i - 1 = read_pos + (i - 1)
        /\ i \in Nat
    BY <1>3, <1>5, SizeAssumption
  <2>2. place(i) = IF read_pos + (i - 1) < Size THEN read_pos + (i - 1) ELSE read_pos + (i - 1) - Size
    BY <1>5, <2>1, Wrap
  <2>3. write_pos = IF read_pos + size < Size THEN read_pos + size ELSE read_pos + size - Size
    BY <1>4, <1>5, Wrap DEF Agree
  <2> HIDE DEF place
  <2>4. place(i) \in 0 .. Size - 1
    BY <1>3, <1>5, <2>1, <2>2, SizeAssumption
  <2>5. at(place(i)) = (IF write_pos <= place(i) THEN place(i) - write_pos
                                                 ELSE place(i) - write_pos + Size) + 1
    BY <1>5, <2>4, Wrap DEF at
  <2>6. at(place(i)) = IF i <= size THEN Size - size + i ELSE i - size
    BY <1>3, <1>5, <2>1, <2>2, <2>3, <2>5, SizeAssumption
  <2> QED BY <2>4, <2>6
<1> HIDE DEF long, place
<1>11. ASSUME NEW i \in 1 .. size + n PROVE Contents'[i] = long[i]
  <2>1. Contents'[i] = IF at(place(i)) <= n THEN d[at(place(i))] ELSE buffer[place(i)]
    BY <1>1, <1>7, <1>10
  <2>2. CASE i <= size
    <3>1. i \in 1 .. size /\ ~(at(place(i)) <= n)
      BY <1>3, <1>5, <1>10, <2>2, SizeAssumption
    <3> QED BY <1>6, <1>9, <2>1, <2>2, <3>1
  <2>3. CASE i > size
    <3>1. i - size \in 1 .. n /\ at(place(i)) = i - size /\ ~(i <= size)
      BY <1>3, <1>5, <1>10, <2>3, SizeAssumption
    <3> QED BY <1>8, <1>9, <2>1, <3>1
  <2> QED BY <1>3, <1>5, <2>2, <2>3, SizeAssumption
<1>12. Contents' = long
  BY <1>3, <1>5, <1>7, <1>9, <1>11, SeqEqual, SMTT(30)
<1>13. Len(Contents') <= Size
  BY <1>3, <1>5, <1>7, SizeAssumption
<1> QED BY <1>12, <1>13, Zenon DEF long, front, n, d

\* A step that keeps the ring keeps the sequence.
LEMMA SameContents == ASSUME UNCHANGED ring PROVE Contents' = Contents
BY DEF ring, Contents

\* The fresh pipe is the empty stream.
LEMMA InitIsStream == Init => Stream!Init
<1> SUFFICES ASSUME Init PROVE Stream!Init
  OBVIOUS
<1>1. Contents = <<>>
  BY EmptyContents DEF Init
<1>2. Offered = [p \in Procs |-> <<>>]
  BY Kinds DEF Init, Offered
<1>3. Told = {}
  BY DEF Init, Told
<1> QED BY <1>1, <1>2, <1>3 DEF Init, Stream!Init

\* Reading takes bytes, tells the end, or is a call that asked for nothing.
LEMMA ReadIsStream == IInv /\ Read => Stream!Next
<1> SUFFICES ASSUME IInv, Read PROVE Stream!Next
  OBVIOUS
<1> DEFINE n == Least(call[current].arg, size)
           v == IF n > 0 THEN "bytes" ELSE IF call[current].arg = 0 THEN "nothing" ELSE "end"
<1>1. n \in 0 .. size /\ Contents' = SubSeq(Contents, n + 1, Len(Contents))
  BY ReadTakes
<1>2. TypeOK /\ current \in Procs /\ current \in readers /\ size \in 0 .. Size
  BY DEF IInv, TypeOK, HoldsEnd, Read
<1>3. Contents \in Seq(Values) /\ Len(Contents) = size
  <2>1. Contents = Bytes(buffer, read_pos, size)
    BY DEF Contents, Bytes
  <2>2. buffer \in [0 .. Size - 1 -> Values] /\ read_pos \in 0 .. Size - 1
    BY <1>2 DEF TypeOK
  <2> QED BY <1>2, <2>1, <2>2, RingIsSeq
<1>4. /\ call' = [call EXCEPT ![current] = NoCall] /\ answer' = [answer EXCEPT ![current] = v]
      /\ readers' = readers /\ writers' = writers
  BY DEF Read, Return, ends
<1>5. Offered' = Offered
  BY <1>2, <1>4, Kinds, OfferedAt, OffersNothing, Zenon DEF Read
<1>6. Told' = IF v = "end" THEN Told \cup {current} ELSE Told \ {current}
  BY <1>2, <1>4, ToldAt, Zenon
<1>7. CASE n > 0
  <2>1. n \in 1 .. Len(Contents) /\ Told' = Told \ {current}
    BY <1>1, <1>2, <1>3, <1>6, <1>7, SizeAssumption
  <2>2. Stream!Take(current)
    BY <1>1, <1>2, <1>4, <1>5, <2>1, Zenon DEF Stream!Take
  <2> QED BY <1>2, <2>2 DEF Stream!Next
<1>8. CASE n = 0
  <2>1. Contents' = Contents
    BY <1>1, <1>3, <1>8, SubSeqFull
  <2>2. CASE call[current].arg = 0
    <3>1. Told' = Told \ {current}
      BY <1>6, <1>8, <2>2
    <3>2. [Offered EXCEPT ![current] = <<>>] = Offered
      BY <1>2, Kinds, OffersNothing DEF Read
    <3>3. Stream!Nothing(current)
      BY <1>4, <1>5, <2>1, <3>1, <3>2 DEF Stream!Nothing
    <3> QED BY <1>2, <3>3 DEF Stream!Next
  <2>3. CASE call[current].arg # 0
    <3>1. size = 0
      BY <1>2, <1>8, <2>3, Kinds, SizeAssumption DEF Read, Least
    <3>2. writers = {} /\ Contents = <<>>
      BY <3>1, EmptyContents DEF Read, MustWaitToRead
    <3>3. Told' = Told \cup {current}
      BY <1>6, <1>8, <2>3
    <3>4. Stream!TellEnd(current)
      BY <1>2, <1>4, <1>5, <2>1, <3>2, <3>3 DEF Stream!TellEnd
    <3> QED BY <1>2, <3>4 DEF Stream!Next
  <2> QED BY <2>2, <2>3
<1> QED BY <1>1, <1>2, <1>7, <1>8, SizeAssumption

\* Writing puts the front of what was offered, or ends without a byte.
LEMMA WriteIsStream == IInv /\ Write => Stream!Next
<1> SUFFICES ASSUME IInv, Write PROVE Stream!Next
  OBVIOUS
<1> DEFINE d == call[current].arg
           n == RoomFor(d)
           v == IF n > 0 THEN "bytes" ELSE "nothing"
<1>1. Contents' = Contents \o SubSeq(d, 1, n) /\ Len(Contents') <= Size
  BY WritePuts, Zenon
<1>2. TypeOK /\ current \in Procs /\ current \in writers /\ size \in 0 .. Size /\ d \in Data
  BY Kinds DEF IInv, TypeOK, HoldsEnd, Write
<1>3. n \in 0 .. Size - size /\ n <= Len(d) /\ d \in Seq(Values)
  BY <1>2, RoomFits, DataIsSeq
<1>4. /\ call' = [call EXCEPT ![current] = NoCall] /\ answer' = [answer EXCEPT ![current] = v]
      /\ readers' = readers /\ writers' = writers
  BY DEF Write, Return, ends
<1>5. Offered' = [Offered EXCEPT ![current] = <<>>] /\ Offered[current] = d
  <2>1. Offered' = [Offered EXCEPT ![current] = <<>>]
    BY <1>2, <1>4, Kinds, OfferedAt, Zenon
  <2>2. Offered[current] = d
    BY <1>2 DEF Offered, Write
  <2> QED BY <2>1, <2>2
<1>6. Told' = Told \ {current}
  <2>1. v # "end"
    OBVIOUS
  <2> HIDE DEF v
  <2> QED BY <1>2, <1>4, <2>1, ToldAt, Zenon
<1> HIDE DEF d, n
<1>7. CASE n > 0
  <2>1. n \in 1 .. Len(Offered[current])
    BY <1>2, <1>3, <1>5, <1>7, SizeAssumption
  <2>2. Contents' = Contents \o SubSeq(Offered[current], 1, n)
    BY <1>1, <1>5
  <2>3. Stream!Put(current)
    BY <1>1, <1>2, <1>4, <1>5, <1>6, <2>1, <2>2, Zenon DEF Stream!Put
  <2> QED BY <1>2, <2>3 DEF Stream!Next
<1>8. CASE n = 0
  <2>1. SubSeq(d, 1, n) = <<>>
    BY <1>8, SubSeqEmpty
  <2>2. Contents = Bytes(buffer, read_pos, size)
    BY DEF Contents, Bytes
  <2>3. Contents \in Seq(Values)
    <3>1. buffer \in [0 .. Size - 1 -> Values] /\ read_pos \in 0 .. Size - 1
      BY <1>2 DEF TypeOK
    <3> QED BY <1>2, <2>2, <3>1, RingIsSeq
  <2>4. Contents' = Contents
    BY <1>1, <2>1, <2>3, ConcatEmptySeq, Zenon
  <2>5. Stream!Nothing(current)
    BY <1>4, <1>5, <1>6, <2>4 DEF Stream!Nothing
  <2> QED BY <1>2, <2>5 DEF Stream!Next
<1> QED BY <1>2, <1>3, <1>7, <1>8, SizeAssumption

\* A blocked call is invisible, except that a restart under the number of read
\* withdraws what a write offered.
LEMMA WaitIsStream ==
  IInv /\ (ReadBlocks \/ WriteBlocks \/ ReadOfWriter) => Stream!Next \/ UNCHANGED Stream!vars
<1> SUFFICES ASSUME IInv, ReadBlocks \/ WriteBlocks \/ ReadOfWriter
             PROVE  Stream!Next \/ UNCHANGED Stream!vars
  OBVIOUS
<1>1. TypeOK /\ current \in Procs /\ Contents' = Contents /\ UNCHANGED ends
  BY SameContents DEF IInv, TypeOK, ReadBlocks, WriteBlocks, ReadOfWriter, BlockAndSwitch,
                      BlockAlone, Return, ends
<1>2. CASE BlockAndSwitch
  BY <1>1, <1>2 DEF BlockAndSwitch, Stream!vars, Offered, Told, ends
<1>3. CASE ReadBlocks /\ BlockAlone
  <2>1. call' = call /\ answer' = answer
    BY <1>1, <1>3, Kinds DEF ReadBlocks, BlockAlone, TypeOK
  <2> QED BY <1>1, <2>1 DEF Stream!vars, Offered, Told, ends
<1>4. CASE WriteBlocks /\ BlockAlone
  <2>1. call' = [call EXCEPT ![current] = Misnamed] /\ answer' = answer
    BY <1>1, <1>4 DEF WriteBlocks, BlockAlone, TypeOK
  <2>2. Offered' = [Offered EXCEPT ![current] = <<>>] /\ Told' = Told
    BY <1>1, <2>1, Kinds, OfferedAt, Zenon DEF Told
  <2>3. Stream!Nothing(current)
    BY <1>1, <2>2 DEF Stream!Nothing, ends
  <2> QED BY <1>1, <2>3 DEF Stream!Next
<1>5. CASE ReadOfWriter
  <2>1. call' = [call EXCEPT ![current] = NoCall] /\ answer' = [answer EXCEPT ![current] = "EBADF"]
    BY <1>5 DEF ReadOfWriter, Return
  <2>2. Offered' = [Offered EXCEPT ![current] = <<>>]
    BY <1>1, <2>1, Kinds, OfferedAt, Zenon
  <2>3. Told' = Told \ {current}
    BY <1>1, <2>1 DEF TypeOK, Told
  <2>4. Stream!Nothing(current)
    BY <1>1, <2>2, <2>3 DEF Stream!Nothing, ends
  <2> QED BY <1>1, <2>4 DEF Stream!Next
<1> QED BY <1>2, <1>3, <1>4, <1>5 DEF ReadBlocks, WriteBlocks

\* A prepared write is an offer, a prepared read nothing.
LEMMA IssueIsStream ==
  ASSUME IInv, NEW c \in ReadCalls \cup WriteCalls, Issue(c)
  PROVE  Stream!Next \/ UNCHANGED Stream!vars
<1>1. /\ TypeOK /\ current \in Procs /\ Contents' = Contents /\ UNCHANGED ends /\ Told' = Told
      /\ call' = [call EXCEPT ![current] = c] /\ call[current] = NoCall
  BY SameContents DEF IInv, TypeOK, Issue, Told
<1>2. CASE c \in ReadCalls
  <2>1. Offered' = Offered
    BY <1>1, <1>2, Kinds, OfferedAt, OffersNothing, ZenonT(60)
  <2> QED BY <1>1, <2>1 DEF Stream!vars, ends
<1>3. CASE c \in WriteCalls
  <2>1. Offered' = [Offered EXCEPT ![current] = c.arg] /\ c.arg \in Data
    BY <1>1, <1>3, Kinds, OfferedAt, Zenon
  <2>2. current \in writers
    BY <1>3, Kinds DEF Issue
  <2>3. Stream!Offer(current)
    BY <1>1, <2>1, <2>2, Zenon DEF Stream!Offer, ends
  <2> QED BY <1>1, <2>3 DEF Stream!Next
<1> QED BY <1>2, <1>3

\* New ends: a new stream, or a copy of a process.
LEMMA GainIsStream ==
  ASSUME IInv, Create \/ \E q \in Procs : Fork(q)
  PROVE  Stream!Next
<1>1. TypeOK /\ current \in Procs /\ Contents' = Contents /\ call' = call
  BY SameContents DEF IInv, TypeOK, Create, Fork
<1>2. Offered' = Offered
  BY <1>1 DEF Offered
<1>3. CASE Create
  <2>1. Stream!Create(current)
    BY <1>1, <1>2, <1>3 DEF Create, Stream!Create, Told
  <2> QED BY <1>1, <2>1 DEF Stream!Next
<1>4. ASSUME NEW q \in Procs, Fork(q) PROVE Stream!Next
  <2>1. Told' = Told \ {q}
    BY <1>1, <1>4 DEF Fork, TypeOK, Told
  <2>2. Stream!Inherit(current, q)
    BY <1>1, <1>2, <1>4, <2>1 DEF Fork, Stream!Inherit
  <2> QED BY <1>1, <2>2 DEF Stream!Next
<1> QED BY <1>3, <1>4

\* Lost ends: the bytes stay while an end is held, and go with the last one.
LEMMA HoldIsStream ==
  ASSUME NEW rs, NEW ws, Hold(rs, ws)
  PROVE  /\ readers' = rs /\ writers' = ws
         /\ Contents' = IF readers' = {} /\ writers' = {} THEN <<>> ELSE Contents
<1>1. CASE rs = {} /\ ws = {}
  BY <1>1 DEF Hold, Contents
<1>2. CASE ~(rs = {} /\ ws = {})
  BY <1>2, SameContents DEF Hold
<1> QED BY <1>1, <1>2 DEF Hold

\* Closing an end, and the end of a process, drop ends of the stream.
LEMMA LossIsStream ==
  ASSUME IInv, (\E end \in {"reader", "writer"} : Close(end)) \/ \E q \in Procs : Kill(q)
  PROVE  Stream!Next
<1>1. ASSUME NEW end \in {"reader", "writer"}, Close(end) PROVE Stream!Next
  <2>1. PICK rs \in {readers, readers \ {current}}, ws \in {writers, writers \ {current}} : Hold(rs, ws)
    BY <1>1, SMTT(30) DEF Close
  <2>2. Offered' = Offered /\ Told' = Told /\ current \in Procs
    BY <1>1 DEF Close, Offered, Told, IInv, TypeOK
  <2>3. Stream!Drop(current)
    BY <2>1, <2>2, HoldIsStream DEF Stream!Drop
  <2> QED BY <2>2, <2>3 DEF Stream!Next
<1>2. ASSUME NEW q \in Procs, Kill(q) PROVE Stream!Next
  <2>1. TypeOK /\ Hold(readers \ {q}, writers \ {q})
    BY <1>2 DEF IInv, Kill
  <2>2. Offered' = [Offered EXCEPT ![q] = <<>>]
    BY <1>2, <2>1, Kinds, OfferedAt, Zenon DEF Kill
  <2>3. Told' = Told \ {q}
    BY <1>2, <2>1 DEF Kill, TypeOK, Told
  <2>4. Stream!Drop(q)
    BY <2>1, <2>2, <2>3, HoldIsStream DEF Stream!Drop
  <2> QED BY <2>4 DEF Stream!Next
<1> QED BY <1>1, <1>2

\* The ring with its restarted calls is a byte stream, for every number of
\* processes, ring size and call length: bytes leave in the order in which they
\* were written, and end-of-file is reported only on an empty pipe without
\* writers.
THEOREM PipeIsByteStream == Spec => ImplementsByteStream
<1>1. IInv /\ [Next]_vars => [Stream!Next]_(Stream!vars)
  <2> SUFFICES ASSUME IInv, [Next]_vars PROVE Stream!Next \/ UNCHANGED Stream!vars
    OBVIOUS
  <2>1. CASE UNCHANGED vars
    BY <2>1, SameContents DEF vars, ends, Stream!vars, Offered, Told
  <2>2. CASE \E q \in Procs : Pause(q) \/ Preempt(q)
    BY <2>2, SameContents DEF Pause, Preempt, ends, Stream!vars, Offered, Told
  <2> QED BY <2>1, <2>2, ReadIsStream, WriteIsStream, WaitIsStream, IssueIsStream, GainIsStream,
             LossIsStream
          DEF Next, Execute
<1> QED BY <1>1, InitIsStream, PipeInvariance, PTL DEF Spec, ImplementsByteStream, Stream!Spec
=============================================================================
