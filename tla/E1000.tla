------------------------------- MODULE E1000 -------------------------------
(***************************************************************************)
(* drivers/e1000.c: sending and receiving, with the card, which works on   *)
(* its own: it sends the descriptors from TDH up to TDT and fills those    *)
(* from RDH up to RDT.                                                     *)
(***************************************************************************)
EXTENDS E1000Rings

vars == <<tx, rx, pc>>

(***************************************************************************)
(* The driver.                                                             *)
(***************************************************************************)
\* setup_tx and setup_rx
Init ==
    /\ tx_ring = [i \in 0..NUM_TX_DESC-1 |-> [frame |-> 0, DD |-> TRUE]]
    /\ tx_cur = 0 /\ TDH = 0 /\ TDT = 0
    /\ rx_ring = [i \in 0..NUM_RX_DESC-1 |-> [frame |-> 0, DD |-> FALSE]]
    /\ rx_cur = 0 /\ RDH = 0 /\ RDT = NUM_RX_DESC - 1
    /\ pc = "idle"
    /\ offered = 0 /\ arrived = 0 /\ accepted = 0 /\ wire = 0 /\ sentCount = 0
    /\ received = 0

\* Mutant: the descriptor is not waited for.
SendFillsAny ==
    /\ pc = "idle"
    /\ offered < MaxFrames
    /\ offered' = offered + 1
    /\ tx_ring' = [tx_ring EXCEPT ![tx_cur] = [frame |-> offered', DD |-> FALSE]]
    /\ pc' = "send"
    /\ UNCHANGED <<tx_cur, TDH, TDT, accepted, wire, sentCount, rx>>

\* e1000_send finds the descriptor free and fills it.
SendFill ==
    /\ pc = "idle"
    /\ offered < MaxFrames
    /\ tx_ring[tx_cur].DD
    /\ offered' = offered + 1
    /\ tx_ring' = [tx_ring EXCEPT ![tx_cur] = [frame |-> offered', DD |-> FALSE]]
    /\ pc' = "send"
    /\ UNCHANGED <<tx_cur, TDH, TDT, accepted, wire, sentCount, rx>>

\* Mutant: TDT is written before the index moves.
SendTailOld ==
    /\ pc = "send"
    /\ tx_cur' = TxNext(tx_cur)
    /\ TDT' = tx_cur
    /\ accepted' = accepted + 1
    /\ pc' = "idle"
    /\ UNCHANGED <<tx_ring, TDH, offered, wire, sentCount, rx>>

\* It hands the descriptor to the card.
SendTail ==
    /\ pc = "send"
    /\ tx_cur' = TxNext(tx_cur)
    /\ TDT' = tx_cur'
    /\ accepted' = accepted + 1
    /\ pc' = "idle"
    /\ UNCHANGED <<tx_ring, TDH, offered, wire, sentCount, rx>>

\* "TX ring stuck": the count ran out and the frame is refused.
SendStuck ==
    /\ pc = "idle" /\ offered < MaxFrames
    /\ ~tx_ring[tx_cur].DD
    /\ offered' = offered + 1
    /\ UNCHANGED <<tx_ring, tx_cur, TDH, TDT, accepted, wire, sentCount, rx, pc>>

\* Mutant: the status is not cleared.
ReceiveKeepsStatus ==
    /\ pc = "idle"
    /\ rx_ring[rx_cur].DD
    /\ received' = rx_ring[rx_cur].frame
    /\ pc' = "receive"
    /\ UNCHANGED <<rx_ring, rx_cur, RDH, RDT, arrived, tx>>

\* e1000_receive finds a frame and copies it.
ReceiveCopy ==
    /\ pc = "idle"
    /\ rx_ring[rx_cur].DD
    /\ received' = rx_ring[rx_cur].frame
    /\ rx_ring' = [rx_ring EXCEPT ![rx_cur].DD = FALSE]
    /\ pc' = "receive"
    /\ UNCHANGED <<rx_cur, RDH, RDT, arrived, tx>>

\* It gives the descriptor back to the card.
ReceiveTail ==
    /\ pc = "receive"
    /\ RDT' = rx_cur
    /\ rx_cur' = RxNext(rx_cur)
    /\ pc' = "idle"
    /\ UNCHANGED <<rx_ring, RDH, arrived, received, tx>>

(***************************************************************************)
(* The card (hardware).                                                    *)
(***************************************************************************)
CardSend ==
    /\ TDH # TDT
    /\ wire' = tx_ring[TDH].frame
    /\ sentCount' = sentCount + 1
    /\ tx_ring' = [tx_ring EXCEPT ![TDH].DD = TRUE]
    /\ TDH' = TxNext(TDH)
    /\ UNCHANGED <<tx_cur, TDT, offered, accepted, rx, pc>>

CardReceive ==
    /\ arrived < MaxFrames /\ RDH # RDT
    /\ arrived' = arrived + 1
    /\ rx_ring' = [rx_ring EXCEPT ![RDH] = [frame |-> arrived', DD |-> TRUE]]
    /\ RDH' = RxNext(RDH)
    /\ UNCHANGED <<rx_cur, RDT, received, tx, pc>>

\* No descriptor is free: the frame is lost.
CardDrop ==
    /\ arrived < MaxFrames /\ RDH = RDT
    /\ arrived' = arrived + 1
    /\ UNCHANGED <<rx_ring, rx_cur, RDH, RDT, received, tx, pc>>

Driver == SendFill \/ SendTail \/ SendStuck \/ ReceiveCopy \/ ReceiveTail
Next == Driver \/ CardSend \/ CardReceive \/ CardDrop

Spec == Init /\ [][Next]_vars

\* The card sends what it has been given; a call of the driver ends.
FairSpec == Spec /\ WF_vars(CardSend) /\ WF_vars(SendTail \/ ReceiveTail)

(***************************************************************************)
(* Properties.                                                             *)
(***************************************************************************)
\* The types.
TypeOK ==
    /\ tx_ring \in [0..NUM_TX_DESC-1 -> [frame : 0..MaxFrames, DD : BOOLEAN]]
    /\ rx_ring \in [0..NUM_RX_DESC-1 -> [frame : 0..MaxFrames, DD : BOOLEAN]]
    /\ {tx_cur, TDH, TDT} \subseteq 0..NUM_TX_DESC-1
    /\ {rx_cur, RDH, RDT} \subseteq 0..NUM_RX_DESC-1
    /\ pc \in {"idle", "send", "receive"}
    /\ {offered, arrived, accepted, wire, sentCount, received} \subseteq 0..MaxFrames

\* A frame for which e1000_send returned success is sent.
EveryFrameSent == (accepted > sentCount) ~> (accepted = sentCount)

\* It is sent if not all descriptors come to be in use at the same time.
SentUnlessFull ==
    (accepted > sentCount) ~> (accepted = sentCount \/ accepted - sentCount = NUM_TX_DESC)
=============================================================================
