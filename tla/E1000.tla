-------------------------------- MODULE E1000 -------------------------------
(***************************************************************************)
(* The two descriptor rings that kernel/drivers/net/e1000.c shares with    *)
(* the network card.  The card is the environment: it fills the receive    *)
(* descriptors from its head up to the tail the driver wrote, and sends    *)
(* the transmit descriptors in the same way.  A frame is its number,       *)
(* modulo FRAMES; its length and the cut to the caller's buffer are data.  *)
(***************************************************************************)
EXTENDS Integers

CONSTANTS
  NUM_RX, NUM_TX,  \* BLACK_E1000_NUM_RX_DESC, BLACK_E1000_NUM_TX_DESC
  FRAMES           \* more than the ring has, so that the numbers tell

VARIABLES
  rx_done, rx_bufs,      \* bit 0 of black_status, and black_rx_bufs
  rx_cur, rdt, rdh,      \* black_rx_cur, the tail register, the card's head
  filling,               \* the card has stored a frame, not its status
  reading,               \* black_e1000_receive has copied a frame
  arrived, received,     \* the numbers of the next frame in and out
  tx_bufs, tx_cur, tdt, tdh, \* the same for sending
  queued, sent,          \* the numbers of the next frame sent and on the wire
  overrun                \* a frame was sent although the ring had no room

rx == <<rx_done, rx_bufs, rx_cur, rdt, rdh, filling, reading, arrived, received>>
tx == <<tx_bufs, tx_cur, tdt, tdh, queued, sent, overrun>>

RxNext(i) == (i + 1) % NUM_RX
TxNext(i) == (i + 1) % NUM_TX
Following(n) == (n + 1) % FRAMES

\* black_e1000_init: all descriptors but one belong to the card.
E1000Init ==
  /\ rx_done = [i \in 0 .. NUM_RX - 1 |-> FALSE]
  /\ rx_bufs = [i \in 0 .. NUM_RX - 1 |-> 0]
  /\ rx_cur = 0 /\ rdh = 0 /\ rdt = NUM_RX - 1
  /\ filling = FALSE /\ reading = FALSE /\ arrived = 0 /\ received = 0
  /\ tx_bufs = [i \in 0 .. NUM_TX - 1 |-> 0]
  /\ tx_cur = 0 /\ tdh = 0 /\ tdt = 0
  /\ queued = 0 /\ sent = 0 /\ overrun = FALSE
-----------------------------------------------------------------------------
\* The card stores a frame, then reports it and moves on.
CardFill ==
  /\ ~filling /\ rdh # rdt
  /\ rx_bufs' = [rx_bufs EXCEPT ![rdh] = arrived]
  /\ arrived' = Following(arrived) /\ filling' = TRUE
  /\ UNCHANGED <<rx_done, rx_cur, rdt, rdh, reading, received, tx>>

CardReport ==
  /\ filling
  /\ rx_done' = [rx_done EXCEPT ![rdh] = TRUE]
  /\ rdh' = RxNext(rdh) /\ filling' = FALSE
  /\ UNCHANGED <<rx_bufs, rx_cur, rdt, reading, arrived, received, tx>>

\* black_e1000_receive: test the status and copy, then give the descriptor
\* back by clearing the status and moving the tail onto it.
ReceiveCopy ==
  /\ ~reading /\ rx_done[rx_cur]
  /\ reading' = TRUE
  /\ UNCHANGED <<rx_done, rx_bufs, rx_cur, rdt, rdh, filling, arrived, received, tx>>

ReceiveGiveKeepsStatus ==
  /\ reading /\ reading' = FALSE
  /\ rdt' = rx_cur /\ rx_cur' = RxNext(rx_cur) /\ received' = Following(received)
  /\ UNCHANGED <<rx_done, rx_bufs, rdh, filling, arrived, tx>>
ReceiveGive ==
  /\ reading /\ reading' = FALSE
  /\ rx_done' = [rx_done EXCEPT ![rx_cur] = FALSE]
  /\ rdt' = rx_cur
  /\ rx_cur' = RxNext(rx_cur)
  /\ received' = Following(received)
  /\ UNCHANGED <<rx_bufs, rdh, filling, arrived, tx>>
-----------------------------------------------------------------------------
\* black_e1000_send does not look at the status of the descriptor: when the
\* card is a whole ring behind, the tail comes to meet the head.
Send ==
  /\ tx_bufs' = [tx_bufs EXCEPT ![tx_cur] = queued]
  /\ tx_cur' = TxNext(tx_cur)
  /\ tdt' = TxNext(tx_cur)
  /\ queued' = Following(queued)
  /\ overrun' = (overrun \/ TxNext(tx_cur) = tdh)
  /\ UNCHANGED <<tdh, sent, rx>>

CardSend ==
  /\ tdh # tdt
  /\ tdh' = TxNext(tdh)
  /\ sent' = Following(sent)
  /\ UNCHANGED <<tx_bufs, tx_cur, tdt, queued, overrun, rx>>

E1000Next ==
  CardFill \/ CardReport \/ ReceiveCopy \/ ReceiveGive \/ Send \/ CardSend
-----------------------------------------------------------------------------
\* Frames pass both rings once and in order.  What black_e1000_receive finds
\* reported at its place is the oldest frame it has not returned, and the
\* card is never given the descriptor that is being read.  What the card
\* sends next is the oldest frame not sent, as long as no frame was ever
\* sent into a full ring.
FramesInOrder ==
  /\ rx_done[rx_cur] => rx_bufs[rx_cur] = received
  /\ reading => rx_done[rx_cur] /\ ~(filling /\ rdh = rx_cur)
  /\ ~overrun /\ tdh # tdt => tx_bufs[tdh] = sent
  /\ ~overrun => (queued - sent) % FRAMES = (tdt - tdh) % NUM_TX
=============================================================================
