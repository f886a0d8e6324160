CONSTANTS
    NUM_TX_DESC = 3
    NUM_RX_DESC = 3
    MaxFrames = 6
SPECIFICATION FairSpec
PROPERTIES
    TxImplementsQueue
    RxImplementsQueue
    SentUnlessFull
\* The bounds end a behaviour.
CHECK_DEADLOCK FALSE
