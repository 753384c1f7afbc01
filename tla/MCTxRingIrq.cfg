\* Enter may be hit at any point of the main loop's send sequence.
CONSTANTS
    NumTx = 4
    MaxFrames = 3
    IrqPoints = {"idle", "addr", "length", "cmd", "step", "tail"}
    Backlog = 2
SPECIFICATION Spec
INVARIANTS LoggedIsTransmitted
CHECK_DEADLOCK FALSE
