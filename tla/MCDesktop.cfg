CONSTANTS
    Packets <- MCPackets
    StartX = 1
    StartY = 2
    Half = 16
    ScreenW = 4
    ScreenH = 5
    Margin = 1
    BarH = 1
    TitleH = 0
    WinX = 1
    WinY = 2
    WinW = 2
    WinH = 3
    CloseLeft = 0
    CloseTop = 0
    CloseSize = 0
    DropLeft = 0
    DropTop = 2
    DropW = 1
    DropH = 0
    MaxReports = 2
SPECIFICATION FairSpec
INVARIANTS CursorOnScreen WindowOnDesktop DragHolds
PROPERTIES DragEnds
\* After the drop to ring 3 the loop is over.
CHECK_DEADLOCK FALSE
