------------------------------ MODULE TxRing ------------------------------
(***************************************************************************)
(* The transmit ring of the e1000 driver (src/drivers/net/e1000.c).  The   *)
(* network card sends what lies from TDH up to, not including, TDT while   *)
(* the driver queues more.  e1000_send_frame waits for its frame to go out *)
(* only so long; a frame it gave up on is still in the ring.  A frame is   *)
(* its number in the order of queueing.                                    *)
(***************************************************************************)
EXTENDS Integers

CONSTANTS
    TxDescs,  \* E1000_TX_DESC_COUNT
    TxFrames  \* bound: frames queued

TxAssumption == TxDescs \in Nat /\ TxDescs >= 2 /\ TxFrames \in Nat

VARIABLES
    tx_dd,    \* the "descriptor done" bit of each descriptor
    tx_buf,   \* g_tx_buffers
    tdh,      \* TDH, the card's position
    tdt,      \* TDT (and g_tx_tail)
    tx_card,  \* the card: "idle", or "sending" a frame it has read
    onWire,   \* that frame
    out,      \* the last frame sent
    tx_pc,    \* where e1000_send_frame is
    mine,     \* the descriptor it waits for
    queued,   \* frames queued
    result    \* what the last call returned: "sent" (a length), "busy", "timeout"

txCardVars == <<tx_card, tdh, onWire, out>>
txDriverVars == <<tdt, tx_pc, mine, queued, result>>
txVars == <<tx_dd, tx_buf, txCardVars, txDriverVars>>

TxSlots == 0..(TxDescs - 1)
TxSucc(i) == IF i = TxDescs - 1 THEN 0 ELSE i + 1

\* e1000_init_tx_ring
TxInit ==
    /\ tx_dd = [i \in TxSlots |-> TRUE] /\ tx_buf = [i \in TxSlots |-> 0]
    /\ tdh = 0 /\ tdt = 0 /\ tx_card = "idle" /\ onWire = 0 /\ out = 0
    /\ tx_pc = "idle" /\ mine = 0 /\ queued = 0 /\ result = "sent"

----------------------------------------------------------------------------
(***************************************************************************)
(* The card.  Positions that are equal mean that nothing is queued.        *)
(***************************************************************************)
CardReads ==
    /\ tx_card = "idle" /\ tdh # tdt
    /\ onWire' = tx_buf[tdh] /\ tx_card' = "sending"
    /\ UNCHANGED <<tx_dd, tx_buf, tdh, out, txDriverVars>>

CardSent ==
    /\ tx_card = "sending"
    /\ tx_dd' = [tx_dd EXCEPT ![tdh] = TRUE]
    /\ tdh' = TxSucc(tdh) /\ out' = onWire /\ onWire' = 0 /\ tx_card' = "idle"
    /\ UNCHANGED <<tx_buf, txDriverVars>>

----------------------------------------------------------------------------
(***************************************************************************)
(* e1000_send_frame                                                        *)
(***************************************************************************)
Usable(i) == tx_dd[i]
TxCleared == FALSE

SendStarts ==
    /\ tx_pc = "idle" /\ queued < TxFrames /\ Usable(tdt)
    /\ tx_pc' = "fill"
    /\ UNCHANGED <<tx_dd, tx_buf, txCardVars, tdt, mine, queued, result>>

SendBusy ==
    /\ tx_pc = "idle" /\ ~Usable(tdt)
    /\ result' = "busy"
    /\ UNCHANGED <<tx_dd, tx_buf, txCardVars, tdt, tx_pc, mine, queued>>

SendFills ==
    /\ tx_pc = "fill"
    /\ tx_buf' = [tx_buf EXCEPT ![tdt] = queued + 1] /\ tx_pc' = "clear"
    /\ UNCHANGED <<tx_dd, txCardVars, tdt, mine, queued, result>>

SendClears ==
    /\ tx_pc = "clear"
    /\ tx_dd' = [tx_dd EXCEPT ![tdt] = TxCleared] /\ tx_pc' = "tail"
    /\ UNCHANGED <<tx_buf, txCardVars, tdt, mine, queued, result>>

NextTail == TxSucc(tdt)
SendQueues ==
    /\ tx_pc = "tail"
    /\ tdt' = NextTail /\ mine' = tdt /\ queued' = queued + 1 /\ tx_pc' = "poll"
    /\ UNCHANGED <<tx_dd, tx_buf, txCardVars, result>>

SendDone ==
    /\ tx_pc = "poll" /\ tx_dd[mine]
    /\ tx_pc' = "idle" /\ result' = "sent"
    /\ UNCHANGED <<tx_dd, tx_buf, txCardVars, tdt, mine, queued>>

\* After 100000 tries, however far the card is.
SendTimesOut ==
    /\ tx_pc = "poll" /\ ~tx_dd[mine]
    /\ tx_pc' = "idle" /\ result' = "timeout"
    /\ UNCHANGED <<tx_dd, tx_buf, txCardVars, tdt, mine, queued>>

TxCard == CardReads \/ CardSent
TxNext ==
    \/ TxCard \/ SendStarts \/ SendBusy \/ SendFills \/ SendClears \/ SendQueues
    \/ SendDone \/ SendTimesOut

TxSpec == TxInit /\ [][TxNext]_txVars
TxFairSpec == TxSpec /\ WF_txVars(TxCard)

----------------------------------------------------------------------------
(***************************************************************************)
(* Properties.                                                             *)
(***************************************************************************)
\* The type of the state; positions stay inside the ring.
TxTypeOK ==
    /\ tx_dd \in [TxSlots -> BOOLEAN] /\ tx_buf \in [TxSlots -> 0..TxFrames]
    /\ tdh \in TxSlots /\ tdt \in TxSlots /\ mine \in TxSlots
    /\ tx_card \in {"idle", "sending"} /\ tx_pc \in {"idle", "fill", "clear", "tail", "poll"}
    /\ onWire \in 0..TxFrames /\ out \in 0..TxFrames /\ queued \in 0..TxFrames
    /\ result \in {"sent", "busy", "timeout"}

\* Frames go out in the order they were queued, each once and as it was
\* written: a buffer is not filled again while its frame waits.
OutInOrder == [][out' # out => out' = out + 1]_txVars

\* A call that returns the length of its frame returns after that frame, and
\* every frame an earlier call gave up on, went out.
SentIsOut == [][tx_pc = "poll" /\ tx_pc' = "idle" /\ result' = "sent" => out = queued]_txVars

\* A queued frame goes out, unless the calls that gave up have filled the whole
\* ring: then the card takes TDT = TDH for an empty ring.
DrainsUnlessFull == out < queued ~> out = queued \/ queued - out = TxDescs
============================================================================
