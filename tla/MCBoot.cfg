\* Every wait may give up at any time; block 10 is answered with an error.  The
\* third read goes round the queues of two entries.
CONSTANTS
    QueueSize = 2
    BadLbas = {10}
    MaxReads = 3
    U16 = 8
    U32 = 64
    Volumes <- MCVolumes
    CorbSize = 4
    NumVerbs = 3
SPECIFICATION Spec
INVARIANTS NeverWrongSector SeenMeansDone PayloadHonest PayloadFound PanicExplained
INVARIANTS VerbsInOrder StreamPlays
PROPERTIES BootEnds
\* The main loop is another module's.
CHECK_DEADLOCK FALSE
