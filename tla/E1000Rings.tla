----------------------------- MODULE E1000Rings -----------------------------
(***************************************************************************)
(* drivers/e1000.c: the transmit and receive rings the driver shares with  *)
(* the card, and the queues they are meant to be.  Frames are numbered in  *)
(* the order of the calls of e1000_send and in the order of their arrival. *)
(***************************************************************************)
EXTENDS Integers, Sequences

CONSTANTS
    NUM_TX_DESC, NUM_RX_DESC,
    MaxFrames           \* bound: frames offered to e1000_send, frames arriving

ASSUME RingAssumption == {NUM_TX_DESC, NUM_RX_DESC} \subseteq Nat \ {0, 1}
ASSUME BoundAssumption == MaxFrames \in Nat

VARIABLES
    tx_ring, tx_cur, TDH, TDT,
    rx_ring, rx_cur, RDH, RDT,
    pc,                 \* the driver: "idle", or the step it is in
    offered, arrived,   \* frames so far
    accepted,           \* frames e1000_send returned 0 for
    wire,               \* the frame the card sent last
    sentCount,          \* frames the card has sent
    received            \* the frame e1000_receive returned last

tx == <<tx_ring, tx_cur, TDH, TDT, offered, accepted, wire, sentCount>>
rx == <<rx_ring, rx_cur, RDH, RDT, arrived, received>>

Frames == 1..MaxFrames

TxNext(i) == (i + 1) % NUM_TX_DESC

RxNext(i) == (i + 1) % NUM_RX_DESC

(***************************************************************************)
(* Properties.                                                             *)
(***************************************************************************)
\* The accepted frames that are not yet sent.
TxQueue == [i \in 1..(accepted - sentCount) |->
               tx_ring[(TDH + i - 1) % NUM_TX_DESC].frame]

TxQ == INSTANCE BoundedQueue WITH
           Items <- Frames, Capacity <- NUM_TX_DESC, queue <- TxQueue, taken <- wire

\* The card sends the frames e1000_send accepted, each once and in order; none
\* is overwritten before, also when every descriptor is in use.
TxImplementsQueue == TxQ!Spec

\* What e1000_receive has still to return.
RxFirst == IF pc = "receive" THEN RxNext(rx_cur) ELSE rx_cur
RxQueue == [i \in 1..((RDH - RxFirst) % NUM_RX_DESC) |->
               rx_ring[(RxFirst + i - 1) % NUM_RX_DESC].frame]

RxQ == INSTANCE BoundedQueue WITH
           Items <- Frames, Capacity <- NUM_RX_DESC - 1, queue <- RxQueue, taken <- received

\* e1000_receive returns the frames the card stored, each once and in order.
RxImplementsQueue == RxQ!Spec
=============================================================================
