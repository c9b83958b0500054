--------------------------- MODULE NetworkProofs ---------------------------
(***************************************************************************)
(* Proofs about the two descriptor rings of the network card and about the *)
(* neighbour cache.                                                        *)
(***************************************************************************)
EXTENDS RxRing, TxRing, NeighbourCache, WellFoundedInduction, TLAPS

----------------------------------------------------------------------------
(***************************************************************************)
(* Proofs about the receive ring, for every number of descriptors and      *)
(* frames.  The inductive invariant counts descriptors from g_rx_head: the *)
(* first arrived - got of them hold the frames got + 1, got + 2, ... and   *)
(* are marked done, except the one being handed back.                      *)
(***************************************************************************)
\* Descriptors from a up to b, going round.
RxDist(a, b) == IF a <= b THEN b - a ELSE b - a + RxDescs
RxWaiting == arrived - got

RxPositions ==
    /\ RxSucc(rdt) = head
    /\ RxWaiting = RxDist(head, rdh)
RxMarked ==
    \A i \in RxSlots : rx_dd[i] <=> (RxDist(head, i) < RxWaiting /\ ~(rx_pc = "return" /\ i = head))
RxStored ==
    \A i \in RxSlots : RxDist(head, i) < RxWaiting => rx_buf[i] = got + 1 + RxDist(head, i)
RxFilling ==
    rx_card = "filled" => rdh # rdt /\ arrived < RxFrames /\ rx_buf[rdh] = arrived + 1
Reading ==
    /\ rx_pc # "idle" => RxWaiting > 0
    /\ rx_pc \in {"clear", "return"} => frame = got + 1
RxIInv == RxTypeOK /\ RxPositions /\ RxMarked /\ RxStored /\ RxFilling /\ Reading

----------------------------------------------------------------------------
\* The ring as e1000_init_rx_ring leaves it satisfies the invariant.
LEMMA RxInitInv == ASSUME RxAssumption PROVE RxInit => RxIInv
BY
   DEF RxAssumption, RxInit, RxIInv, RxTypeOK, RxPositions, RxMarked, RxStored, RxFilling, Reading,
       RxSlots, RxSucc, RxDist, RxWaiting

\* A frame the card has stored but not marked is beyond those waiting.
LEMMA RxCardFills == ASSUME RxAssumption PROVE RxIInv /\ CardFills => RxIInv'
BY SMTT(60)
   DEF RxAssumption, CardFills, rxDriverVars, RxIInv, RxTypeOK, RxPositions, RxMarked, RxStored, RxFilling, Reading,
       RxSlots, RxSucc, RxDist, RxWaiting

\* The frame it marks becomes the last one waiting.
LEMMA RxCardMarks == ASSUME RxAssumption PROVE RxIInv /\ CardMarks => RxIInv'
<1> SUFFICES ASSUME RxIInv, CardMarks PROVE RxIInv'
  OBVIOUS
<1> USE DEF RxAssumption, CardMarks, rxDriverVars, RxIInv, RxSlots
<1>1. RxTypeOK'
  BY DEF RxTypeOK, RxFilling, RxSucc
<1>2. RxPositions' /\ RxWaiting' = RxWaiting + 1
  BY DEF RxTypeOK, RxPositions, RxFilling, RxWaiting, RxDist, RxSucc
<1>3. RxMarked'
  <2> SUFFICES ASSUME NEW i \in RxSlots
               PROVE  rx_dd'[i] <=> (RxDist(head, i) < RxWaiting + 1 /\ ~(rx_pc = "return" /\ i = head))
    BY <1>2 DEF RxMarked, RxDist
  <2>1. CASE i = rdh
    <3>1. rx_dd'[i] = TRUE
      BY <2>1 DEF RxTypeOK
    <3>2. RxDist(head, i) = RxWaiting
      BY <2>1 DEF RxPositions
    <3>3. rx_pc = "return" => i # head
      BY <3>2 DEF Reading, RxTypeOK, RxDist, RxWaiting
    <3>4. RxWaiting \in Int
      BY DEF RxWaiting, RxTypeOK
    <3> QED
      BY <3>1, <3>2, <3>3, <3>4
  <2>2. CASE i # rdh
    <3>1. rx_dd'[i] = rx_dd[i]
      BY <2>2 DEF RxTypeOK
    <3>2. RxDist(head, i) < RxWaiting + 1 <=> RxDist(head, i) < RxWaiting
      BY <2>2 DEF RxTypeOK, RxPositions, RxDist, RxWaiting
    <3> QED
      BY Zenon, <3>1, <3>2 DEF RxMarked
  <2> QED
    BY <2>1, <2>2
<1>4. RxStored'
  <2> SUFFICES ASSUME NEW i \in RxSlots, RxDist(head, i) < RxWaiting + 1
               PROVE  rx_buf[i] = got + 1 + RxDist(head, i)
    BY <1>2 DEF RxStored, RxDist
  <2>1. i = rdh \/ RxDist(head, i) < RxWaiting
    BY DEF RxTypeOK, RxPositions, RxDist, RxWaiting
  <2> QED
    BY <2>1 DEF RxTypeOK, RxStored, RxFilling, RxPositions, RxDist, RxWaiting
<1>5. RxFilling' /\ Reading'
  BY DEF RxTypeOK, RxFilling, Reading, RxWaiting
<1> QED
  BY <1>1, <1>2, <1>3, <1>4, <1>5

\* The driver finds and copies the first frame waiting.
LEMMA RxTakes == ASSUME RxAssumption PROVE RxIInv /\ (RecvFinds \/ RecvCopies) => RxIInv'
<1> SUFFICES ASSUME RxIInv, RecvFinds \/ RecvCopies PROVE RxIInv'
  OBVIOUS
<1> USE DEF RxAssumption, rxCardVars, RxIInv, RxSlots
<1>1. UNCHANGED <<rx_dd, rx_buf, rx_card, rdh, arrived, head, got, rdt>> /\ rx_pc # "return" /\ rx_pc' # "return"
  BY DEF RecvFinds, RecvCopies
<1>2. RxWaiting' = RxWaiting /\ RxPositions' /\ RxStored' /\ RxFilling'
  BY <1>1 DEF RxPositions, RxStored, RxFilling, RxWaiting, RxDist, RxSucc
<1>3. RxMarked'
  BY <1>1, <1>2 DEF RxMarked, RxDist
<1>4. CASE RecvFinds
  <2>1. 0 < RxWaiting
    <3>1. RxDist(head, head) < RxWaiting
      BY <1>4 DEF RecvFinds, Found, RxMarked, RxTypeOK
    <3> QED
      BY <3>1 DEF RxDist, RxTypeOK
  <2>2. Reading'
    BY <1>2, <1>4, <2>1 DEF RecvFinds, Reading, RxTypeOK, RxWaiting
  <2>3. RxTypeOK'
    BY <1>4 DEF RecvFinds, RxTypeOK
  <2> QED
    BY <1>2, <1>3, <2>2, <2>3
<1>5. CASE RecvCopies
  <2>1. frame' = got + 1 /\ RxWaiting > 0
    BY <1>5 DEF RecvCopies, Reading, RxStored, RxTypeOK, RxDist, RxWaiting
  <2>2. Reading'
    BY <1>1, <1>2, <2>1 DEF Reading
  <2>3. RxTypeOK'
    BY Zenon, <1>5, <2>1 DEF RecvCopies, RxTypeOK
  <2> QED
    BY <1>2, <1>3, <2>2, <2>3
<1> QED
  BY <1>4, <1>5

\* It clears the mark of the descriptor it has read.
LEMMA RxClears == ASSUME RxAssumption PROVE RxIInv /\ RecvClears => RxIInv'
<1> SUFFICES ASSUME RxIInv, RecvClears PROVE RxIInv'
  OBVIOUS
<1> USE DEF RxAssumption, RecvClears, RxCleared, rxCardVars, RxIInv, RxSlots
<1>1. RxTypeOK'
  BY DEF RxTypeOK
<1>2. RxPositions' /\ RxStored' /\ RxFilling' /\ Reading' /\ RxWaiting' = RxWaiting
  BY DEF RxTypeOK, RxPositions, RxStored, RxFilling, Reading, RxWaiting, RxDist, RxSucc
<1>3. RxMarked'
  <2> SUFFICES ASSUME NEW i \in RxSlots
               PROVE  rx_dd'[i] <=> (RxDist(head, i) < RxWaiting /\ i # head)
    BY <1>2 DEF RxMarked, RxDist
  <2>1. CASE i = head
    BY <2>1 DEF RxTypeOK
  <2>2. CASE i # head
    <3>1. rx_dd'[i] = rx_dd[i]
      BY <2>2 DEF RxTypeOK
    <3> QED
      BY <2>2, <3>1 DEF RxMarked
  <2> QED
    BY <2>1, <2>2
<1> QED
  BY <1>1, <1>2, <1>3

\* Handing the descriptor back moves the count on by one.
LEMMA RxReturns == ASSUME RxAssumption PROVE RxIInv /\ RecvReturns => RxIInv' /\ got' = got + 1
<1> SUFFICES ASSUME RxIInv, RecvReturns PROVE RxIInv' /\ got' = got + 1
  OBVIOUS
<1> USE DEF RxAssumption, RecvReturns, Returned, rxCardVars, RxIInv, RxSlots
<1>1. got' = got + 1 /\ got + 1 <= arrived
  BY DEF Reading, RxTypeOK, RxWaiting
<1>2. RxTypeOK'
  BY <1>1 DEF RxTypeOK, RxSucc
<1>3. ASSUME NEW i \in RxSlots, i # head
      PROVE  RxDist(RxSucc(head), i) = RxDist(head, i) - 1
  BY <1>3 DEF RxTypeOK, RxDist, RxSucc
<1>4. RxDist(RxSucc(head), head) = RxDescs - 1 /\ RxDist(head, rdh) < RxDescs
  BY DEF RxTypeOK, RxDist, RxSucc
<1>5. rdh # head
  BY DEF RxTypeOK, RxPositions, Reading, RxDist, RxWaiting
<1>6. RxWaiting' = RxWaiting - 1 /\ RxWaiting \in Int
  BY <1>1 DEF RxTypeOK, RxWaiting
<1>7. RxPositions'
  BY Zenon, <1>3, <1>5, <1>6 DEF RxTypeOK, RxPositions, RxDist, RxWaiting
<1>8. RxMarked'
  <2> SUFFICES ASSUME NEW i \in RxSlots
               PROVE  rx_dd[i] <=> RxDist(RxSucc(head), i) < RxWaiting - 1
    BY <1>6 DEF RxMarked, RxDist
  <2>1. CASE i = head
    BY <2>1, <1>4, <1>6 DEF RxMarked, RxPositions
  <2>2. CASE i # head
    <3>1. RxDist(head, i) \in Int
      BY DEF RxDist, RxTypeOK
    <3>2. RxDist(RxSucc(head), i) < RxWaiting - 1 <=> RxDist(head, i) < RxWaiting
      BY <1>3, <1>6, <2>2, <3>1
    <3> QED
      BY <2>2, <3>2 DEF RxMarked
  <2> QED
    BY <2>1, <2>2
<1>9. RxStored'
  <2> SUFFICES ASSUME NEW i \in RxSlots, RxDist(RxSucc(head), i) < RxWaiting - 1
               PROVE  rx_buf[i] = got' + 1 + RxDist(RxSucc(head), i)
    BY <1>6 DEF RxStored, RxDist
  <2>1. i # head
    BY <1>4, <1>6 DEF RxPositions
  <2>2. RxDist(head, i) \in Int
    BY DEF RxDist, RxTypeOK
  <2>3. RxDist(RxSucc(head), i) = RxDist(head, i) - 1 /\ RxDist(head, i) < RxWaiting
    BY <1>3, <1>6, <2>1, <2>2
  <2>4. rx_buf[i] = got + 1 + RxDist(head, i)
    BY <2>3 DEF RxStored
  <2> HIDE DEF RxIInv, RecvReturns
  <2>5. got \in Int
    BY DEF RxIInv, RxTypeOK
  <2> QED
    BY <1>1, <2>2, <2>3, <2>4, <2>5
<1>10. RxFilling' /\ Reading'
  BY <1>5 DEF RxTypeOK, RxFilling, Reading, RxPositions, RxSucc
<1> QED
  BY <1>1, <1>2, <1>7, <1>8, <1>9, <1>10

----------------------------------------------------------------------------
\* Every step of the card and of the driver keeps the invariant.
LEMMA RxStep == ASSUME RxAssumption PROVE RxIInv /\ [RxNext]_rxVars => RxIInv'
<1> SUFFICES ASSUME RxIInv, [RxNext]_rxVars PROVE RxIInv'
  OBVIOUS
<1>1. CASE UNCHANGED rxVars
  BY <1>1 DEF rxVars, rxCardVars, rxDriverVars, RxIInv, RxTypeOK, RxPositions, RxMarked, RxStored, RxFilling,
              Reading, RxWaiting, RxDist, RxSucc
<1>2. CASE RxCard
  BY <1>2, RxCardFills, RxCardMarks DEF RxCard
<1>3. CASE Recv
  BY <1>3, RxTakes, RxClears, RxReturns DEF Recv
<1> QED
  BY <1>1, <1>2, <1>3 DEF RxNext, RecvEmpty

LEMMA RxInvariant == ASSUME RxAssumption PROVE RxSpec => []RxIInv
  BY RxInitInv, RxStep, PTL DEF RxSpec

\* Between the card's descriptors and the driver's there is no overlap: for any
\* size of the ring, the card never stores into a descriptor that holds a frame
\* not handed up or being read.
THEOREM RxNoOverrun == ASSUME RxAssumption PROVE RxSpec => []NoOverrun
<1>1. RxIInv => NoOverrun
  <2> SUFFICES ASSUME RxIInv, rx_card = "filled" PROVE ~rx_dd[rdh] /\ (rx_pc # "idle" => rdh # head)
    BY DEF NoOverrun
  <2>1. RxDist(head, rdh) = RxWaiting /\ RxWaiting \in Int
    BY DEF RxIInv, RxPositions, RxTypeOK, RxWaiting
  <2>2. ~rx_dd[rdh]
    BY <2>1 DEF RxIInv, RxMarked, RxTypeOK
  <2>3. rx_pc # "idle" => rdh # head
    BY <2>1 DEF RxAssumption, RxIInv, Reading, RxTypeOK, RxDist, RxSlots
  <2> QED
    BY <2>2, <2>3
<1> QED
  BY <1>1, RxInvariant, PTL

\* Frames come up in the order of arrival, each once, whatever the interleaving
\* of the card with e1000_recv_frame.
THEOREM RxInOrder == ASSUME RxAssumption PROVE RxSpec => InOrder
<1>1. RxIInv /\ [RxNext]_rxVars => [got' # got => got' = got + 1]_rxVars
  <2> SUFFICES ASSUME RxIInv, RxNext PROVE got' # got => got' = got + 1
    OBVIOUS
  <2>1. CASE RecvReturns
    BY <2>1, RxReturns
  <2>2. CASE ~RecvReturns
    BY <2>2 DEF RxNext, RxCard, Recv, CardFills, CardMarks, RecvFinds, RecvCopies, RecvClears,
                RecvEmpty, rxDriverVars, rxVars
  <2> QED
    BY <2>1, <2>2
<1> QED
  BY <1>1, RxInvariant, PTL DEF RxSpec, InOrder

----------------------------------------------------------------------------
(***************************************************************************)
(* Proofs about the transmit ring, for every number of descriptors and     *)
(* frames.  The inductive invariant counts descriptors from TDH: the first *)
(* queued - out of them hold the frames out + 1, out + 2, ... and are not  *)
(* done; TDT lies that many further, and on TDH itself when the whole ring *)
(* is queued.                                                              *)
(***************************************************************************)
\* Descriptors from a up to b, going round.
TxDist(a, b) == IF a <= b THEN b - a ELSE b - a + TxDescs
TxWaiting == queued - out

TxPositions ==
    /\ TxWaiting \in 0..TxDescs
    /\ TxWaiting = TxDist(tdh, tdt) \/ (TxWaiting = TxDescs /\ tdt = tdh)
TxMarked ==
    \A i \in TxSlots : tx_dd[i] <=> (TxDist(tdh, i) >= TxWaiting /\ ~(tx_pc = "tail" /\ i = tdt))
TxStored ==
    \A i \in TxSlots : TxDist(tdh, i) < TxWaiting => tx_buf[i] = out + 1 + TxDist(tdh, i)
Sending == tx_card = "sending" => TxWaiting > 0 /\ onWire = out + 1
TxFilling ==
    /\ tx_pc \in {"fill", "clear", "tail"} => TxWaiting < TxDescs /\ queued < TxFrames
    /\ tx_pc \in {"clear", "tail"} => tx_buf[tdt] = queued + 1
Polling == tx_pc = "poll" => tdt = TxSucc(mine)
TxIInv == TxTypeOK /\ TxPositions /\ TxMarked /\ TxStored /\ Sending /\ TxFilling /\ Polling

----------------------------------------------------------------------------
\* The ring as e1000_init_tx_ring leaves it satisfies the invariant.
LEMMA TxInitInv == ASSUME TxAssumption PROVE TxInit => TxIInv
BY
   DEF TxAssumption, TxInit, TxIInv, TxTypeOK, TxPositions, TxMarked, TxStored, Sending, TxFilling, Polling,
       TxSlots, TxSucc, TxDist, TxWaiting

\* The card reads the first frame waiting.
LEMMA TxCardReads == ASSUME TxAssumption PROVE TxIInv /\ CardReads => TxIInv'
<1> SUFFICES ASSUME TxIInv, CardReads PROVE TxIInv'
  OBVIOUS
<1> USE DEF TxAssumption, CardReads, txDriverVars, TxIInv, TxSlots
<1>1. TxWaiting > 0 /\ onWire' = out + 1
  BY DEF TxTypeOK, TxPositions, TxStored, TxDist, TxWaiting
<1>2. TxWaiting' = TxWaiting /\ TxPositions' /\ TxStored' /\ TxFilling' /\ Polling'
  BY DEF TxPositions, TxStored, TxFilling, Polling, TxWaiting, TxDist, TxSucc
<1>3. TxMarked'
  BY <1>2 DEF TxMarked, TxDist
<1>4. Sending'
  BY <1>1, <1>2 DEF Sending
<1>5. TxTypeOK'
  BY <1>1 DEF TxTypeOK, TxWaiting
<1> QED
  BY <1>2, <1>3, <1>4, <1>5

\* A frame sent moves the count on by one.
LEMMA TxCardSent == ASSUME TxAssumption PROVE TxIInv /\ CardSent => TxIInv' /\ out' = out + 1
<1> SUFFICES ASSUME TxIInv, CardSent PROVE TxIInv' /\ out' = out + 1
  OBVIOUS
<1> USE DEF TxAssumption, CardSent, txDriverVars, TxIInv, TxSlots
<1>1. out' = out + 1 /\ TxWaiting > 0 /\ TxWaiting \in Int
  BY DEF Sending, TxPositions
<1>2. TxWaiting' = TxWaiting - 1
  BY <1>1 DEF TxWaiting, TxTypeOK
<1>3. TxTypeOK'
  BY <1>1 DEF TxTypeOK, TxWaiting, TxSucc
<1>4. ASSUME NEW i \in TxSlots, i # tdh
      PROVE  TxDist(TxSucc(tdh), i) = TxDist(tdh, i) - 1 /\ TxDist(tdh, i) \in Int
  BY <1>4 DEF TxTypeOK, TxDist, TxSucc
<1>5. TxDist(TxSucc(tdh), tdh) = TxDescs - 1 /\ TxDist(tdh, tdh) = 0
  BY DEF TxTypeOK, TxDist, TxSucc
<1>6. TxPositions'
  <2>1. CASE tdt = tdh
    BY <1>1, <1>2, <1>5, <2>1 DEF TxPositions, TxDist
  <2>2. CASE tdt # tdh
    BY <1>1, <1>2, <1>4, <2>2 DEF TxPositions, TxDist, TxTypeOK
  <2> QED
    BY <2>1, <2>2
<1>7. TxMarked'
  <2> SUFFICES ASSUME NEW i \in TxSlots
               PROVE  tx_dd'[i] <=> (TxDist(TxSucc(tdh), i) >= TxWaiting - 1 /\ ~(tx_pc = "tail" /\ i = tdt))
    BY <1>2 DEF TxMarked, TxDist
  <2>1. CASE i = tdh
    <3>1. tx_dd'[i] = TRUE
      BY <2>1 DEF TxTypeOK
    <3>2. TxDist(TxSucc(tdh), i) >= TxWaiting - 1
      BY <1>1, <1>5, <2>1 DEF TxPositions
    <3>3. tx_pc = "tail" => tdh # tdt
      BY <1>1, <1>5 DEF TxPositions, TxFilling
    <3> QED
      BY <2>1, <3>1, <3>2, <3>3
  <2>2. CASE i # tdh
    <3>1. tx_dd'[i] = tx_dd[i]
      BY <2>2 DEF TxTypeOK
    <3>2. TxDist(TxSucc(tdh), i) >= TxWaiting - 1 <=> TxDist(tdh, i) >= TxWaiting
      BY <1>1, <1>4, <2>2
    <3> QED
      BY Zenon, <3>1, <3>2 DEF TxMarked
  <2> QED
    BY <2>1, <2>2
<1>8. TxStored'
  <2> SUFFICES ASSUME NEW i \in TxSlots, TxDist(TxSucc(tdh), i) < TxWaiting - 1
               PROVE  tx_buf[i] = out' + 1 + TxDist(TxSucc(tdh), i)
    BY Zenon, <1>2 DEF TxStored, TxDist
  <2>1. i # tdh
    BY <1>1, <1>5 DEF TxPositions
  <2>2. TxDist(TxSucc(tdh), i) = TxDist(tdh, i) - 1 /\ TxDist(tdh, i) \in Int /\ TxDist(tdh, i) < TxWaiting
    BY <1>1, <1>4, <2>1
  <2>3. tx_buf[i] = out + 1 + TxDist(tdh, i)
    BY <2>2 DEF TxStored
  <2>4. out \in Int
    BY DEF TxTypeOK
  <2> HIDE DEF TxIInv, CardSent
  <2> QED
    BY <1>1, <2>2, <2>3, <2>4
<1>9. Sending' /\ TxFilling' /\ Polling'
  BY <1>1, <1>2 DEF Sending, TxFilling, Polling, TxSucc, TxTypeOK
<1> QED
  BY <1>1, <1>3, <1>6, <1>7, <1>8, <1>9

\* A call that finds the descriptor at TDT done finds the ring not full.
LEMMA TxStarts == ASSUME TxAssumption PROVE TxIInv /\ SendStarts => TxIInv'
<1> SUFFICES ASSUME TxIInv, SendStarts PROVE TxIInv'
  OBVIOUS
<1> USE DEF TxAssumption, SendStarts, txCardVars, TxIInv, TxSlots
<1>1. TxDist(tdh, tdt) >= TxWaiting
  BY DEF Usable, TxMarked, TxTypeOK
<1>2. TxWaiting < TxDescs
  BY <1>1 DEF TxTypeOK, TxPositions, TxDist
<1>3. TxWaiting' = TxWaiting /\ TxPositions' /\ TxStored' /\ Sending' /\ Polling'
  BY DEF TxPositions, TxStored, Sending, Polling, TxWaiting, TxDist, TxSucc
<1>4. TxMarked'
  BY <1>3 DEF TxMarked, TxDist
<1>5. TxFilling' /\ TxTypeOK'
  BY Zenon, <1>2, <1>3 DEF TxFilling, TxTypeOK
<1> QED
  BY <1>3, <1>4, <1>5

\* The buffer at TDT is not one of those waiting.
LEMMA TxFills == ASSUME TxAssumption PROVE TxIInv /\ SendFills => TxIInv'
<1> SUFFICES ASSUME TxIInv, SendFills PROVE TxIInv'
  OBVIOUS
<1> USE DEF TxAssumption, SendFills, txCardVars, TxIInv, TxSlots
<1>1. TxDist(tdh, tdt) = TxWaiting /\ TxWaiting \in Int
  BY DEF TxPositions, TxFilling, TxTypeOK
<1>2. TxWaiting' = TxWaiting /\ TxPositions' /\ Sending' /\ Polling'
  BY Zenon DEF TxPositions, Sending, Polling, TxWaiting, TxDist, TxSucc
<1>3. TxMarked'
  BY <1>2 DEF TxMarked, TxDist
<1>4. TxStored'
  <2> SUFFICES ASSUME NEW i \in TxSlots, TxDist(tdh, i) < TxWaiting
               PROVE  tx_buf'[i] = out + 1 + TxDist(tdh, i)
    BY Zenon, <1>2 DEF TxStored, TxDist
  <2>1. i # tdt
    BY <1>1
  <2> QED
    BY Zenon, <2>1 DEF TxStored, TxTypeOK
<1>5. TxFilling' /\ TxTypeOK'
  BY <1>2 DEF TxFilling, TxTypeOK
<1> QED
  BY <1>2, <1>3, <1>4, <1>5

LEMMA TxClears == ASSUME TxAssumption PROVE TxIInv /\ SendClears => TxIInv'
<1> SUFFICES ASSUME TxIInv, SendClears PROVE TxIInv'
  OBVIOUS
<1> USE DEF TxAssumption, SendClears, TxCleared, txCardVars, TxIInv, TxSlots
<1>1. TxWaiting' = TxWaiting /\ TxPositions' /\ TxStored' /\ Sending' /\ TxFilling' /\ Polling'
  BY Zenon DEF TxPositions, TxStored, Sending, TxFilling, Polling, TxWaiting, TxDist, TxSucc
<1>2. TxMarked'
  <2> SUFFICES ASSUME NEW i \in TxSlots
               PROVE  tx_dd'[i] <=> (TxDist(tdh, i) >= TxWaiting /\ i # tdt)
    BY <1>1 DEF TxMarked, TxDist
  <2>1. CASE i = tdt
    BY <2>1 DEF TxTypeOK
  <2>2. CASE i # tdt
    <3>1. tx_dd'[i] = tx_dd[i]
      BY <2>2 DEF TxTypeOK
    <3> QED
      BY <2>2, <3>1 DEF TxMarked
  <2> QED
    BY <2>1, <2>2
<1>3. TxTypeOK'
  BY DEF TxTypeOK
<1> QED
  BY <1>1, <1>2, <1>3

\* Moving TDT on makes the frame the last one waiting.
LEMMA TxQueues == ASSUME TxAssumption PROVE TxIInv /\ SendQueues => TxIInv'
<1> SUFFICES ASSUME TxIInv, SendQueues PROVE TxIInv'
  OBVIOUS
<1> USE DEF TxAssumption, SendQueues, NextTail, txCardVars, TxIInv, TxSlots
<1>1. TxDist(tdh, tdt) = TxWaiting /\ TxWaiting \in 0..(TxDescs - 1)
  BY DEF TxPositions, TxFilling, TxTypeOK
<1>2. TxWaiting' = TxWaiting + 1
  BY DEF TxWaiting, TxTypeOK
<1>3. TxTypeOK'
  BY DEF TxTypeOK, TxFilling, TxSucc
<1>4. TxPositions'
  BY <1>1, <1>2 DEF TxTypeOK, TxPositions, TxDist, TxSucc
<1>5. ASSUME NEW i \in TxSlots, i # tdt
      PROVE  TxDist(tdh, i) # TxWaiting /\ TxDist(tdh, i) \in Int
  BY <1>1, <1>5 DEF TxTypeOK, TxDist
<1>6. TxMarked'
  <2> SUFFICES ASSUME NEW i \in TxSlots PROVE tx_dd[i] <=> TxDist(tdh, i) >= TxWaiting + 1
    BY <1>2 DEF TxMarked, TxDist
  <2>1. CASE i = tdt
    BY <1>1, <2>1 DEF TxMarked
  <2>2. CASE i # tdt
    <3>1. TxDist(tdh, i) >= TxWaiting + 1 <=> TxDist(tdh, i) >= TxWaiting
      BY <1>1, <1>5, <2>2
    <3> QED
      BY <2>2, <3>1 DEF TxMarked
  <2> QED
    BY <2>1, <2>2
<1>7. TxStored'
  <2> SUFFICES ASSUME NEW i \in TxSlots, TxDist(tdh, i) < TxWaiting + 1
               PROVE  tx_buf[i] = out + 1 + TxDist(tdh, i)
    BY Zenon, <1>2 DEF TxStored, TxDist
  <2>1. CASE i = tdt
    BY <1>1, <2>1 DEF TxFilling, TxWaiting, TxTypeOK
  <2>2. CASE i # tdt
    <3>1. TxDist(tdh, i) < TxWaiting
      BY <1>1, <1>5, <2>2
    <3> QED
      BY <3>1 DEF TxStored
  <2> QED
    BY <2>1, <2>2
<1>8. Sending' /\ TxFilling' /\ Polling'
  BY <1>1, <1>2 DEF Sending, TxFilling, Polling, TxSucc
<1> QED
  BY <1>3, <1>4, <1>6, <1>7, <1>8

\* Returning changes nothing of the ring.
LEMMA TxEnds == ASSUME TxAssumption PROVE TxIInv /\ (SendBusy \/ SendDone \/ SendTimesOut) => TxIInv'
<1> SUFFICES ASSUME TxIInv, SendBusy \/ SendDone \/ SendTimesOut PROVE TxIInv'
  OBVIOUS
<1> USE DEF txCardVars, TxIInv
<1>1. UNCHANGED <<tx_dd, tx_buf, tx_card, tdh, onWire, out, tdt, mine, queued>>
      /\ tx_pc' = "idle" /\ tx_pc \in {"idle", "poll"} /\ result' \in {"sent", "busy", "timeout"}
  BY DEF SendBusy, SendDone, SendTimesOut
<1>2. TxWaiting' = TxWaiting /\ TxPositions' /\ TxStored' /\ Sending' /\ TxFilling' /\ Polling'
  BY Zenon, <1>1 DEF TxPositions, TxStored, Sending, TxFilling, Polling, TxWaiting, TxDist, TxSucc, TxSlots
<1>3. TxMarked'
  BY <1>1, <1>2 DEF TxMarked, TxDist, TxSlots
<1>4. TxTypeOK'
  BY Zenon, <1>1 DEF TxTypeOK, TxSlots
<1> QED
  BY <1>2, <1>3, <1>4

----------------------------------------------------------------------------
\* Every step of the card and of the driver keeps the invariant.
LEMMA TxStep == ASSUME TxAssumption PROVE TxIInv /\ [TxNext]_txVars => TxIInv'
<1> SUFFICES ASSUME TxIInv, [TxNext]_txVars PROVE TxIInv'
  OBVIOUS
<1>1. CASE UNCHANGED txVars
  BY Zenon, <1>1 DEF txVars, txCardVars, txDriverVars, TxIInv, TxTypeOK, TxPositions, TxMarked, TxStored, Sending,
              TxFilling, Polling, TxWaiting, TxDist, TxSucc
<1>2. CASE TxCard
  BY <1>2, TxCardReads, TxCardSent DEF TxCard
<1>3. CASE SendStarts \/ SendFills \/ SendClears \/ SendQueues
  BY <1>3, TxStarts, TxFills, TxClears, TxQueues
<1>4. CASE SendBusy \/ SendDone \/ SendTimesOut
  BY <1>4, TxEnds
<1> QED
  BY <1>1, <1>2, <1>3, <1>4 DEF TxNext

LEMMA TxInvariant == ASSUME TxAssumption PROVE TxSpec => []TxIInv
  BY TxInitInv, TxStep, PTL DEF TxSpec

\* For any size of the ring frames go out in the order they were queued, each
\* once and as written, however many calls gave up waiting.
THEOREM TxOutInOrder == ASSUME TxAssumption PROVE TxSpec => OutInOrder
<1>1. TxIInv /\ [TxNext]_txVars => [out' # out => out' = out + 1]_txVars
  <2> SUFFICES ASSUME TxIInv, TxNext PROVE out' # out => out' = out + 1
    OBVIOUS
  <2>1. CASE CardSent
    BY <2>1, TxCardSent
  <2>2. CASE ~CardSent
    BY Zenon, <2>2 DEF TxNext, TxCard, CardReads, SendStarts, SendBusy, SendFills, SendClears, SendQueues,
                SendDone, SendTimesOut, txCardVars
  <2> QED
    BY <2>1, <2>2
<1> QED
  BY <1>1, TxInvariant, PTL DEF TxSpec, OutInOrder

\* For any size of the ring a call that reports its frame sent reports it after
\* everything queued went out.
THEOREM TxSentIsOut == ASSUME TxAssumption PROVE TxSpec => SentIsOut
<1>1. TxIInv /\ [TxNext]_txVars
        => [tx_pc = "poll" /\ tx_pc' = "idle" /\ result' = "sent" => out = queued]_txVars
  <2> SUFFICES ASSUME TxIInv, TxNext, tx_pc = "poll", tx_pc' = "idle", result' = "sent"
               PROVE  out = queued
    BY Zenon
  <2>1. SendDone
    BY Zenon DEF TxNext, TxCard, CardReads, CardSent, SendStarts, SendBusy, SendFills, SendClears,
           SendQueues, SendTimesOut, txDriverVars
  <2>2. TxDist(tdh, mine) >= TxWaiting
    BY <2>1 DEF SendDone, TxIInv, TxMarked, TxTypeOK
  <2>3. TxWaiting = 0
    BY <2>2 DEF TxAssumption, TxIInv, TxPositions, Polling, TxTypeOK, TxDist, TxSucc, TxSlots
  <2> QED
    BY <2>3 DEF TxIInv, TxTypeOK, TxWaiting
<1> QED
  BY <1>1, TxInvariant, PTL DEF TxSpec, SentIsOut

----------------------------------------------------------------------------
(***************************************************************************)
(* Proofs about the neighbour cache, for every number of entries, devices  *)
(* and addresses and every life time.  The inductive invariant: an entry   *)
(* that is not expired and is not of the latest store of its key has the   *)
(* entry of that store in front of it.                                     *)
(***************************************************************************)
Latest(k, i) == cache[i].expires = stored[k] + TTL
InFront ==
    \A k \in Keys : \A i \in Matches(k) :
        /\ cache[i].expires <= stored[k] + TTL
        /\ Latest(k, i) \/ \E j \in Matches(k) : j < i /\ Latest(k, j)
StoredBefore == \A k \in Keys : stored[k] <= now
IInv == TypeOK /\ StoredBefore /\ InFront

----------------------------------------------------------------------------
\* A set of numbers has a least one.
LEMMA LeastNatural ==
  ASSUME NEW S, S \subseteq Nat, S # {}
  PROVE  \E x \in S : \A y \in S : x <= y
<1> DEFINE R == {ss \in Nat \X Nat : ss[1] < ss[2]}
<1>1. IsWellFoundedOn(R, Nat)
  BY NatLessThanWellFounded, Zenon DEF OpToRel
<1>2. PICK x \in S : \A y \in S : ~(<<y, x>> \in R)
  <2> HIDE DEF R
  <2> QED BY Zenon, <1>1, WFMin
<1>3. ASSUME NEW y \in S PROVE x <= y
  <2>1. x \in Nat /\ y \in Nat
    OBVIOUS
  <2>2. y < x => <<y, x>> \in R
    BY <2>1
  <2> QED BY <1>2, <2>1, <2>2
<1> QED BY <1>3

\* Min is the least element of a set of slots.
LEMMA MinIsLeast ==
  ASSUME CacheAssumption, NEW S, S \subseteq Slots, S # {}
  PROVE  Min(S) \in S /\ \A y \in S : Min(S) <= y
<1>1. S \subseteq Nat
  BY DEF CacheAssumption, Slots
<1>2. \E x \in S : \A y \in S : x <= y
  BY Zenon, <1>1, LeastNatural
<1> QED BY <1>2 DEF Min

\* The slot a lookup answers from is the first that matches.
LEMMA AnswerIsFirst ==
  ASSUME CacheAssumption, NEW k \in Keys
  PROVE  /\ Answer(k) = 0 <=> Matches(k) = {}
         /\ Answer(k) # 0 => Answer(k) \in Matches(k) /\ \A i \in Matches(k) : Answer(k) <= i
<1>1. Matches(k) \subseteq Slots /\ 0 \notin Slots
  BY DEF CacheAssumption, Matches, Slots
<1>2. CASE Matches(k) = {}
  BY <1>2 DEF Answer
<1>3. CASE Matches(k) # {}
  <2>1. Min(Matches(k)) \in Matches(k) /\ \A i \in Matches(k) : Min(Matches(k)) <= i
    BY <1>1, <1>3, MinIsLeast
  <2> QED BY <1>1, <1>3, <2>1 DEF Answer
<1> QED BY <1>2, <1>3

\* What a slot that matches has.
LEMMA MatchFacts ==
  ASSUME CacheAssumption, TypeOK, NEW k \in Keys, NEW i \in Slots
  PROVE  /\ i \in Matches(k) <=> cache[i].valid /\ cache[i].key = k /\ cache[i].expires > now
         /\ cache[i].expires \in Nat /\ now \in Nat /\ stored[k] \in Nat /\ TTL \in Nat
<1>1. cache[i].expires \in Nat /\ now \in Nat /\ stored[k] \in Nat /\ TTL \in Nat
  BY DEF CacheAssumption, TypeOK
<1> QED BY <1>1 DEF Matches, Expired

\* An empty entry is well formed.
LEMMA EmptyOK == ASSUME CacheAssumption PROVE Empty \in [valid : BOOLEAN, key : Keys, expires : 0..(MaxTick + TTL)]
<1>1. Keys # {}
  <2>1. PICK d \in Devs, a \in Addrs : TRUE
    BY DEF CacheAssumption
  <2>2. <<d, a>> \in Keys
    BY DEF Keys
  <2> QED BY <2>2
<1>2. (CHOOSE k \in Keys : TRUE) \in Keys
  BY <1>1
<1> QED BY <1>2 DEF CacheAssumption, Empty

\* The empty cache satisfies the invariant.
LEMMA CacheInit == ASSUME CacheAssumption PROVE Init => IInv
<1> SUFFICES ASSUME Init PROVE IInv
  OBVIOUS
<1>1. TypeOK
  BY EmptyOK DEF CacheAssumption, Init, TypeOK
<1>2. StoredBefore
  BY DEF Init, StoredBefore
<1>3. \A k \in Keys : Matches(k) = {}
  BY DEF Init, Matches, Empty
<1> QED BY <1>1, <1>2, <1>3 DEF IInv, InFront

\* Dropping entries that are expired, or all those of some devices, leaves the
\* latest entry of a key in front.
LEMMA DropKeeps ==
  ASSUME CacheAssumption, IInv, NEW gone \in SUBSET Slots, NEW devs,
         \A i \in gone : Expired(i) \/ Dev(i) \in devs,
         \A i \in Slots : Dev(i) \in devs => i \in gone \/ Expired(i),
         cache' = Drop(gone), UNCHANGED <<now, stored>>
  PROVE  IInv'
<1>1. TypeOK'
  BY EmptyOK DEF IInv, TypeOK, Drop
<1>2. ASSUME NEW k \in Keys
      PROVE  Matches(k)' = IF k[1] \in devs THEN {} ELSE Matches(k)
  <2>1. ASSUME NEW i \in Slots
        PROVE  i \in Matches(k)' <=> (i \in Matches(k) /\ k[1] \notin devs)
    <3>1. CASE i \in gone
      <4>1. cache'[i].valid = FALSE
        BY Zenon, <3>1 DEF Drop, Empty
      <4>2. i \notin Matches(k)'
        BY <4>1 DEF Matches
      <4>3. i \in Matches(k) => k[1] \in devs
        BY Zenon, <3>1 DEF Matches, Dev
      <4> QED BY <4>2, <4>3
    <3>2. CASE i \notin gone
      <4>1. cache'[i] = cache[i]
        BY <3>2 DEF Drop
      <4>2. i \in Matches(k)' <=> i \in Matches(k)
        BY Zenon, <4>1 DEF Matches, Expired
      <4>3. i \in Matches(k) => k[1] \notin devs
        BY Zenon, <3>2 DEF Matches, Dev
      <4> QED BY <4>2, <4>3
    <3> QED BY <3>1, <3>2
  <2>2. Matches(k) \subseteq Slots /\ Matches(k)' \subseteq Slots
    BY Zenon DEF Matches
  <2> QED BY <2>1, <2>2
<1>3. ASSUME NEW k \in Keys, NEW i \in Matches(k), k[1] \notin devs
      PROVE  cache'[i] = cache[i]
  BY Zenon, <1>3 DEF Matches, Dev, Drop
<1>4. InFront'
  <2> SUFFICES ASSUME NEW k \in Keys, NEW i \in Matches(k)'
               PROVE  /\ cache'[i].expires <= stored[k] + TTL
                      /\ \/ cache'[i].expires = stored[k] + TTL
                         \/ \E j \in Matches(k)' : j < i /\ cache'[j].expires = stored[k] + TTL
    BY Zenon DEF InFront, Latest
  <2>1. k[1] \notin devs /\ Matches(k)' = Matches(k) /\ i \in Matches(k)
    BY <1>2
  <2> QED BY <1>3, <2>1 DEF IInv, InFront, Latest
<1>5. StoredBefore'
  BY DEF IInv, StoredBefore
<1> QED BY <1>1, <1>4, <1>5 DEF IInv

\* arp_cache_lookup, sys_arp_cache_info and the flushes only drop entries.
LEMMA DroppingKeeps ==
  ASSUME CacheAssumption, IInv,
         \/ \E k \in Keys : Lookup(k)
         \/ \E i \in Slots : Info(i)
         \/ \E d \in Devs : Flush({d})
         \/ Flush(Devs)
  PROVE  IInv'
<1> DEFINE none == {}
<1>1. ASSUME NEW k \in Keys, Lookup(k) PROVE IInv'
  <2>1. /\ Passed(k) \in SUBSET Slots
        /\ \A j \in Passed(k) : Expired(j) \/ Dev(j) \in none
        /\ \A j \in Slots : Dev(j) \in none => j \in Passed(k) \/ Expired(j)
    BY DEF Passed
  <2>2. cache' = Drop(Passed(k)) /\ UNCHANGED <<now, stored>>
    BY <1>1 DEF Lookup
  <2> HIDE DEF none
  <2> QED BY <2>1, <2>2, DropKeeps, Zenon
<1>2. ASSUME NEW i \in Slots, Info(i) PROVE IInv'
  <2> DEFINE gone == {i} \cap {j \in Slots : Expired(j)}
  <2>1. /\ gone \in SUBSET Slots
        /\ \A j \in gone : Expired(j) \/ Dev(j) \in none
        /\ \A j \in Slots : Dev(j) \in none => j \in gone \/ Expired(j)
    OBVIOUS
  <2>2. cache' = Drop(gone) /\ UNCHANGED <<now, stored>>
    BY <1>2 DEF Info
  <2> HIDE DEF gone, none
  <2> QED BY <2>1, <2>2, DropKeeps, Zenon
<1>3. ASSUME NEW devs, Flush(devs) PROVE IInv'
  <2> DEFINE gone == {i \in Slots : Dev(i) \in devs}
  <2>1. /\ gone \in SUBSET Slots /\ \A j \in gone : Expired(j) \/ Dev(j) \in devs
        /\ \A j \in Slots : Dev(j) \in devs => j \in gone \/ Expired(j)
    OBVIOUS
  <2>2. cache' = Drop(gone) /\ UNCHANGED <<now, stored>>
    BY <1>3 DEF Flush
  <2> HIDE DEF gone
  <2> QED BY <2>1, <2>2, DropKeeps, Zenon
<1> QED BY Zenon, <1>1, <1>2, <1>3

----------------------------------------------------------------------------
\* The slot that arp_cache_store takes.
LEMMA StoreSlot ==
  ASSUME CacheAssumption, TypeOK, NEW k \in Keys
  PROVE  /\ SlotFor(k) \in Slots
         /\ \A i \in Stops(k) : SlotFor(k) \in Stops(k) /\ SlotFor(k) <= i
         /\ Stops(k) = {} => \A i \in Slots : cache[SlotFor(k)].expires <= cache[i].expires
<1>1. Stops(k) \subseteq Slots /\ OldestSlots \subseteq Slots
  BY DEF Stops, OldestSlots
<1>2. CASE Stops(k) # {}
  <2>1. Min(Stops(k)) \in Stops(k) /\ \A i \in Stops(k) : Min(Stops(k)) <= i
    BY <1>1, <1>2, MinIsLeast
  <2> QED BY Zenon, <1>1, <1>2, <2>1 DEF SlotFor
<1>3. CASE Stops(k) = {}
  <2>1. OldestSlots # {}
    <3> DEFINE times == {cache[i].expires : i \in Slots}
    <3>1. 1 \in Slots /\ \A i \in Slots : cache[i].expires \in Nat
      BY DEF CacheAssumption, Slots, TypeOK
    <3>2. times \subseteq Nat /\ times # {}
      BY <3>1
    <3>3. PICK t \in times : \A y \in times : t <= y
      BY Zenon, <3>2, LeastNatural
    <3>4. PICK i \in Slots : cache[i].expires = t
      OBVIOUS
    <3>5. \A j \in Slots : cache[i].expires <= cache[j].expires
      BY <3>3, <3>4
    <3> QED BY Zenon, <3>5 DEF OldestSlots
  <2>2. Min(OldestSlots) \in OldestSlots
    BY <1>1, <2>1, MinIsLeast
  <2>3. SlotFor(k) \in OldestSlots
    BY <1>3, <2>2 DEF SlotFor, Victim
  <2> QED BY Zenon, <1>3, <2>3 DEF OldestSlots
<1> QED BY Zenon, <1>2, <1>3

\* The cache after a store.
LEMMA StoreEffect ==
  ASSUME CacheAssumption, TypeOK, NEW k \in Keys, Store(k)
  PROVE  /\ TypeOK'
         /\ cache'[SlotFor(k)].valid /\ cache'[SlotFor(k)].key = k
         /\ cache'[SlotFor(k)].expires = now + TTL
         /\ \A i \in Slots \ {SlotFor(k)} : cache'[i] = cache[i]
         /\ stored'[k] = now /\ \A l \in Keys \ {k} : stored'[l] = stored[l]
         /\ now' = now /\ now \in 1..MaxTick
<1>1. SlotFor(k) \in Slots /\ now \in 1..MaxTick
  BY StoreSlot DEF TypeOK
<1>2. now + TTL \in 0..(MaxTick + TTL)
  BY <1>1 DEF CacheAssumption
<1> DEFINE e == [valid |-> TRUE, key |-> k, expires |-> now + TTL]
<1>3. e \in [valid : BOOLEAN, key : Keys, expires : 0..(MaxTick + TTL)]
  BY <1>2
<1>4. cache' = [cache EXCEPT ![SlotFor(k)] = e] /\ stored' = [stored EXCEPT ![k] = now] /\ now' = now
  BY DEF Store, Expiry
<1>5. e.valid /\ e.key = k /\ e.expires = now + TTL
  OBVIOUS
<1> HIDE DEF e
<1>6. TypeOK'
  BY <1>1, <1>3, <1>4 DEF CacheAssumption, TypeOK
<1>7. cache'[SlotFor(k)] = e /\ \A i \in Slots \ {SlotFor(k)} : cache'[i] = cache[i]
  BY <1>1, <1>4 DEF TypeOK
<1>8. stored'[k] = now /\ \A l \in Keys \ {k} : stored'[l] = stored[l]
  BY <1>4 DEF TypeOK
<1> QED BY <1>1, <1>4, <1>5, <1>6, <1>7, <1>8

\* A store keeps the invariant: its entry comes in front of all others of its
\* key, and the entry it takes from another key is not the latest of that key
\* with an older one still behind it.
LEMMA StoreKeeps == ASSUME CacheAssumption, IInv, NEW k \in Keys, Store(k) PROVE IInv'
<1> DEFINE s == SlotFor(k)
<1>1. /\ TypeOK' /\ s \in Slots /\ now' = now /\ now \in Nat /\ TTL \in Nat \ {0}
      /\ cache'[s].valid /\ cache'[s].key = k /\ cache'[s].expires = now + TTL
      /\ \A i \in Slots \ {s} : cache'[i] = cache[i]
      /\ stored'[k] = now /\ \A l \in Keys \ {k} : stored'[l] = stored[l]
  BY StoreSlot, StoreEffect DEF CacheAssumption, IInv
<1>2. /\ \A i \in Stops(k) : s \in Stops(k) /\ s <= i
      /\ Stops(k) = {} => \A i \in Slots : cache[s].expires <= cache[i].expires
  BY Zenon, StoreSlot DEF IInv
<1> HIDE DEF s
<1>3. StoredBefore'
  BY <1>1 DEF IInv, StoredBefore
<1>4. \A l \in Keys : \A i \in Slots \ {s} : i \in Matches(l)' <=> i \in Matches(l)
  BY Zenon, <1>1 DEF Matches, Expired
<1>5. s \in Matches(k)' /\ \A l \in Keys \ {k} : s \notin Matches(l)'
  BY <1>1 DEF Matches, Expired
<1>6. ASSUME NEW l \in Keys, NEW i \in Matches(l)'
      PROVE  /\ cache'[i].expires <= stored'[l] + TTL
             /\ \/ cache'[i].expires = stored'[l] + TTL
                \/ \E j \in Matches(l)' : j < i /\ cache'[j].expires = stored'[l] + TTL
  <2>1. i \in Slots /\ Slots \subseteq Nat
    BY DEF CacheAssumption, Matches, Slots
  <2>2. CASE i = s
    BY <1>1, <1>5, <2>2
  <2>3. CASE i # s /\ l = k
    <3>1. i \in Matches(k) /\ cache'[i] = cache[i]
      BY Zenon, <1>1, <1>4, <2>1, <2>3
    <3>2. i \in Stops(k) /\ cache[i].expires <= stored[k] + TTL
      BY Zenon, <2>1, <3>1 DEF Matches, Stops, IInv, InFront
    <3>3. s < i
      BY <1>1, <1>2, <2>1, <2>3, <3>2
    <3>4. cache[i].expires <= now + TTL
      <4>1. stored[k] <= now /\ stored[k] \in Nat /\ cache[i].expires \in Nat
        BY <2>1, MatchFacts DEF IInv, StoredBefore
      <4> QED BY <1>1, <3>2, <4>1
    <3> QED BY Zenon, <1>1, <1>5, <2>3, <3>1, <3>3, <3>4
  <2>4. CASE i # s /\ l # k
    <3>1. i \in Matches(l) /\ cache'[i] = cache[i] /\ stored'[l] = stored[l]
      BY <1>1, <1>4, <2>1, <2>4
    <3>2. /\ cache[i].expires <= stored[l] + TTL
          /\ Latest(l, i) \/ \E j \in Matches(l) : j < i /\ Latest(l, j)
      BY Zenon, <3>1 DEF IInv, InFront
    <3>3. ASSUME NEW j \in Matches(l), j < i, Latest(l, j), ~Latest(l, i)
          PROVE  j # s
      <4>1. SUFFICES ASSUME j = s PROVE FALSE
        OBVIOUS
      <4>2. s \in Slots /\ cache[s].valid /\ cache[s].key = l
        BY Zenon, <1>1, <4>1 DEF Matches
      <4>3. Stops(k) = {}
        BY Zenon, <1>2, <2>4, <4>2 DEF Stops
      <4>4. cache[s].expires <= cache[i].expires /\ cache[s].expires = stored[l] + TTL
        BY Zenon, <1>2, <2>1, <3>3, <4>1, <4>3 DEF Latest
      <4>5. stored[l] \in Nat /\ cache[i].expires \in Nat
        BY Zenon, <2>1, MatchFacts DEF IInv
      <4> QED BY <1>1, <3>2, <3>3, <4>4, <4>5 DEF Latest
    <3>4. \A j \in Matches(l) \ {s} : j \in Matches(l)' /\ cache'[j] = cache[j]
      BY Zenon, <1>1, <1>4 DEF Matches
    <3> QED BY Zenon, <3>1, <3>2, <3>3, <3>4 DEF Latest
  <2> QED BY Zenon, <2>2, <2>3, <2>4
<1>7. InFront'
  BY <1>6, Zenon DEF InFront, Latest
<1> QED BY Zenon, <1>1, <1>3, <1>7 DEF IInv

\* When the clock advances, an entry expires no later than older ones.
LEMMA TickKeeps == ASSUME CacheAssumption, IInv, Tick PROVE IInv'
<1>1. now < MaxTick /\ now' = now + 1 /\ cache' = cache /\ stored' = stored /\ now \in Nat
  BY DEF IInv, TypeOK, Tick
<1>2. TypeOK' /\ StoredBefore'
  BY <1>1 DEF CacheAssumption, IInv, TypeOK, StoredBefore
<1>3. ASSUME NEW k \in Keys, NEW i \in Slots
      PROVE  i \in Matches(k)' <=> i \in Matches(k) /\ cache[i].expires > now + 1
  BY <1>1, MatchFacts DEF CacheAssumption, IInv, Matches, Expired
<1>4. InFront'
  <2> SUFFICES ASSUME NEW k \in Keys, NEW i \in Matches(k)'
               PROVE  /\ cache[i].expires <= stored[k] + TTL
                      /\ Latest(k, i) \/ \E j \in Matches(k)' : j < i /\ Latest(k, j)
    BY Zenon, <1>1 DEF InFront, Latest
  <2>1. i \in Slots /\ i \in Matches(k) /\ cache[i].expires > now + 1
    BY Zenon, <1>3 DEF Matches
  <2>2. /\ cache[i].expires <= stored[k] + TTL
        /\ Latest(k, i) \/ \E j \in Matches(k) : j < i /\ Latest(k, j)
    BY Zenon, <2>1 DEF IInv, InFront
  <2>3. ASSUME NEW j \in Matches(k), Latest(k, j) PROVE j \in Matches(k)'
    <3>1. j \in Slots /\ cache[j].expires = stored[k] + TTL
      BY Zenon, <2>3 DEF Matches, Latest
    <3>2. cache[j].expires \in Nat /\ cache[i].expires \in Nat
      BY Zenon, <2>1, <3>1, MatchFacts DEF IInv
    <3> QED BY <1>1, <1>3, <2>1, <2>2, <3>1, <3>2
  <2> QED BY Zenon, <2>2, <2>3
<1> QED BY <1>2, <1>4 DEF IInv

\* The latest entry of a key stays in front, in every order of lookups, stores,
\* queries, flushes and ticks.
LEMMA CacheInvariance == ASSUME CacheAssumption PROVE Spec => []IInv
<1>1. IInv /\ [Next]_vars => IInv'
  <2> SUFFICES ASSUME IInv, [Next]_vars PROVE IInv'
    OBVIOUS
  <2>1. CASE UNCHANGED vars
    BY <2>1 DEF vars, IInv, TypeOK, StoredBefore, InFront, Latest, Matches, Expired
  <2>2. CASE Next
    <3>1. CASE \E k \in Keys : Store(k)
      BY <3>1, StoreKeeps
    <3>2. CASE Tick
      BY <3>2, TickKeeps
    <3>3. CASE (\E k \in Keys : Lookup(k)) \/ (\E i \in Slots : Info(i))
               \/ (\E d \in Devs : Flush({d})) \/ Flush(Devs)
      BY Zenon, <3>3, DroppingKeeps
    <3> QED BY <2>2, <3>1, <3>2, <3>3 DEF Next
  <2> QED BY <2>1, <2>2
<1> QED BY <1>1, CacheInit, PTL DEF Spec

\* A lookup answers with the latest store of its key, for every size of the
\* cache, every life time and every number of devices and addresses.
THEOREM AnswersAreFresh == ASSUME CacheAssumption PROVE Spec => []FreshAnswer
<1>1. IInv => FreshAnswer
  <2> SUFFICES ASSUME IInv, NEW k \in Keys, Answer(k) # 0
               PROVE  cache[Answer(k)].expires = stored[k] + TTL
    BY DEF FreshAnswer
  <2>1. Answer(k) \in Matches(k) /\ \A j \in Matches(k) : Answer(k) <= j
    BY AnswerIsFirst
  <2>2. \A j \in Matches(k) : j \in Nat
    BY DEF CacheAssumption, Matches, Slots
  <2> QED BY <2>1, <2>2 DEF IInv, InFront, Latest
<1> QED BY <1>1, CacheInvariance, PTL

\* A store takes the last answer for another key away only when every slot is
\* taken and none expires earlier.
THEOREM EvictsOldest == ASSUME CacheAssumption PROVE Spec => OldestEvicted
<1> DEFINE Fair(k) ==
      (Answer(k) # 0 /\ Answer(k)' = 0 /\ stored' # stored) =>
        \A i \in Slots : cache[i].valid /\ cache[i].expires >= stored[k] + TTL
<1>1. IInv /\ [Next]_vars => [\A k \in Keys : Fair(k)]_vars
  <2> SUFFICES ASSUME IInv, Next, NEW k \in Keys,
                      Answer(k) # 0, Answer(k)' = 0, stored' # stored,
                      NEW i \in Slots
               PROVE  cache[i].valid /\ cache[i].expires >= stored[k] + TTL
    BY Zenon DEF vars
  <2>1. PICK l \in Keys : Store(l)
    BY Zenon DEF Next, Lookup, Info, Flush, Tick
  <2> DEFINE a == Answer(k)
             s == SlotFor(l)
  <2>2. a \in Matches(k) /\ a \in Slots /\ cache[a].valid /\ cache[a].key = k
    BY AnswerIsFirst DEF Matches
  <2>3. cache[a].expires = stored[k] + TTL
    <3>1. \A j \in Matches(k) : a <= j /\ j \in Nat
      BY AnswerIsFirst DEF CacheAssumption, Matches, Slots
    <3> QED BY <2>2, <3>1 DEF IInv, InFront, Latest
  <2>4. Matches(k)' = {}
    <3>1. Matches(k)' \subseteq Slots /\ 0 \notin Slots
      BY DEF CacheAssumption, Matches, Slots
    <3>2. Matches(k)' # {} => Min(Matches(k)') \in Slots
      BY <3>1, MinIsLeast
    <3> QED BY <3>1, <3>2 DEF Answer
  <2>5. /\ s \in Slots /\ cache'[s].valid /\ cache'[s].key = l /\ cache'[s].expires = now + TTL
        /\ \A j \in Slots \ {s} : cache'[j] = cache[j]
        /\ now' = now /\ now \in Nat /\ TTL \in Nat \ {0}
    BY <2>1, StoreSlot, StoreEffect DEF CacheAssumption, IInv
  <2>6. /\ \A j \in Stops(l) : s \in Stops(l) /\ s <= j
        /\ Stops(l) = {} => \A j \in Slots : cache[s].expires <= cache[j].expires
    BY Zenon, StoreSlot DEF IInv
  <2> HIDE DEF a, s
  <2>7. a = s
    <3>1. a # s => a \in Matches(k)'
      BY Zenon, <2>2, <2>5 DEF Matches, Expired
    <3> QED BY <2>4, <3>1
  <2>8. k # l
    <3>1. s \in Matches(l)'
      BY <2>5 DEF Matches, Expired
    <3> QED BY <2>4, <3>1
  <2>9. Stops(l) = {}
    BY <2>2, <2>6, <2>7, <2>8 DEF Stops
  <2>10. cache[i].valid
    BY <2>9 DEF Stops
  <2>11. cache[s].expires <= cache[i].expires /\ cache[i].expires \in Nat /\ stored[k] \in Nat
    BY Zenon, <2>6, <2>9, MatchFacts DEF IInv
  <2> QED BY Zenon, <2>3, <2>5, <2>7, <2>10, <2>11
<1> QED BY <1>1, CacheInvariance, PTL DEF Spec, OldestEvicted
============================================================================
