\* At most one stray acknowledgment before the first report.
CONSTANTS
    Packets <- MCPackets
    StartX = 2
    StartY = 2
    Half = 8
    MaxStrays = 1
SPECIFICATION MouseSpec
PROPERTIES ReportsWhole Resyncs
