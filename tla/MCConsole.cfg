CONSTANTS
    Width = 140
    Height = 110
    HeapUnits = 9
SPECIFICATION Spec
INVARIANTS CursorInside
PROPERTIES LoopLives
\* A handler may spin or panic for ever.
CHECK_DEADLOCK FALSE
