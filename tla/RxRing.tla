------------------------------ MODULE RxRing ------------------------------
(***************************************************************************)
(* The receive ring of the e1000 driver (src/drivers/net/e1000.c).  The    *)
(* network card fills the descriptors from RDH up to, not including, RDT   *)
(* while the driver takes frames; neither waits for the other, so the      *)
(* accesses of e1000_recv_frame are steps of their own.  A frame is its    *)
(* number in the order of arrival.                                         *)
(***************************************************************************)
EXTENDS Integers

CONSTANTS
    RxDescs,  \* E1000_RX_DESC_COUNT
    RxFrames  \* bound: frames that arrive

RxAssumption == RxDescs \in Nat /\ RxDescs >= 2 /\ RxFrames \in Nat

VARIABLES
    rx_dd,    \* the "descriptor done" bit of each descriptor
    rx_buf,   \* g_rx_buffers
    rdh,      \* RDH, the card's position
    rdt,      \* RDT (and g_rx_tail)
    rx_card,  \* the card: "idle", or "filled" between the data and the bit
    arrived,  \* frames the card has completed
    head,     \* g_rx_head
    rx_pc,    \* where e1000_recv_frame is
    frame,    \* the frame copied to the caller
    got       \* the last frame handed up

rxCardVars == <<rx_card, rdh, arrived>>
rxDriverVars == <<head, rx_pc, frame, got, rdt>>
rxVars == <<rx_dd, rx_buf, rxCardVars, rxDriverVars>>

RxSlots == 0..(RxDescs - 1)
RxSucc(i) == IF i = RxDescs - 1 THEN 0 ELSE i + 1

\* e1000_init_rx_ring
RxInit ==
    /\ rx_dd = [i \in RxSlots |-> FALSE] /\ rx_buf = [i \in RxSlots |-> 0]
    /\ rdh = 0 /\ rdt = RxDescs - 1 /\ rx_card = "idle" /\ arrived = 0
    /\ head = 0 /\ rx_pc = "idle" /\ frame = 0 /\ got = 0

----------------------------------------------------------------------------
(***************************************************************************)
(* The card: a frame is stored, then its descriptor marked.  Without a     *)
(* free descriptor frames are dropped.                                     *)
(***************************************************************************)
CardFills ==
    /\ rx_card = "idle" /\ rdh # rdt /\ arrived < RxFrames
    /\ rx_buf' = [rx_buf EXCEPT ![rdh] = arrived + 1]
    /\ rx_card' = "filled"
    /\ UNCHANGED <<rx_dd, rdh, arrived, rxDriverVars>>

CardMarks ==
    /\ rx_card = "filled"
    /\ rx_dd' = [rx_dd EXCEPT ![rdh] = TRUE]
    /\ rdh' = RxSucc(rdh) /\ arrived' = arrived + 1 /\ rx_card' = "idle"
    /\ UNCHANGED <<rx_buf, rxDriverVars>>

----------------------------------------------------------------------------
(***************************************************************************)
(* e1000_recv_frame                                                        *)
(***************************************************************************)
Found == rx_dd[head]
Returned == head
RxCleared == FALSE

RecvFinds ==
    /\ rx_pc = "idle" /\ Found
    /\ rx_pc' = "copy"
    /\ UNCHANGED <<rx_dd, rx_buf, rxCardVars, head, frame, got, rdt>>

RecvCopies ==
    /\ rx_pc = "copy"
    /\ frame' = rx_buf[head] /\ rx_pc' = "clear"
    /\ UNCHANGED <<rx_dd, rx_buf, rxCardVars, head, got, rdt>>

RecvClears ==
    /\ rx_pc = "clear"
    /\ rx_dd' = [rx_dd EXCEPT ![head] = RxCleared] /\ rx_pc' = "return"
    /\ UNCHANGED <<rx_buf, rxCardVars, head, frame, got, rdt>>

RecvReturns ==
    /\ rx_pc = "return"
    /\ rdt' = Returned /\ head' = RxSucc(head)
    /\ got' = frame /\ frame' = 0 /\ rx_pc' = "idle"
    /\ UNCHANGED <<rx_dd, rx_buf, rxCardVars>>

\* Nothing there: the call returns 0.
RecvEmpty == rx_pc = "idle" /\ ~Found /\ UNCHANGED rxVars

Recv == RecvFinds \/ RecvCopies \/ RecvClears \/ RecvReturns
RxCard == CardFills \/ CardMarks
RxNext == RxCard \/ Recv \/ RecvEmpty

RxSpec == RxInit /\ [][RxNext]_rxVars
\* The peer keeps offering frames, and some program keeps calling recv.
RxFairSpec == RxSpec /\ WF_rxVars(RxCard) /\ WF_rxVars(Recv)

----------------------------------------------------------------------------
(***************************************************************************)
(* Properties.                                                             *)
(***************************************************************************)
\* The type of the state; positions stay inside the ring.
RxTypeOK ==
    /\ rx_dd \in [RxSlots -> BOOLEAN] /\ rx_buf \in [RxSlots -> 0..RxFrames]
    /\ rdh \in RxSlots /\ rdt \in RxSlots /\ head \in RxSlots
    /\ rx_card \in {"idle", "filled"} /\ rx_pc \in {"idle", "copy", "clear", "return"}
    /\ arrived \in 0..RxFrames /\ frame \in 0..RxFrames /\ got \in 0..RxFrames

\* The card never stores a frame into a descriptor that holds one not handed
\* up, nor into the one the driver is reading.
NoOverrun == rx_card = "filled" => ~rx_dd[rdh] /\ (rx_pc # "idle" => rdh # head)

\* Frames are handed up in the order of arrival, each once.
InOrder == [][got' # got => got' = got + 1]_rxVars

\* The ring never wedges: descriptors handed back are used again, so that all
\* frames offered come up.
AllHandedUp == <>(got = RxFrames)
============================================================================
