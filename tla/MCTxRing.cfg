\* Enter only between sends, and a card that is never a full ring behind.
\* 3 descriptors, 7 frames: both indices wrap twice.
CONSTANTS
    NumTx = 3
    MaxFrames = 7
    IrqPoints = {"idle"}
    Backlog = 1
SPECIFICATION FairSpec
INVARIANTS TxInv NoWriteUnderDma
PROPERTIES TxIsFifo AllTransmitted
\* With no more frames to send the driver rests.
CHECK_DEADLOCK FALSE
