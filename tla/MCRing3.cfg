\* map_page may be called with one frame; every other choice is the firmware's.
CONSTANTS
    Watched <- MCWatched
    NewFrames = {5}
SPECIFICATION Spec
INVARIANTS TranslationExact TlbCoherent GateTransparent
PROPERTIES TaskCompletes
\* The task ends in its idle loop, or in a panic.
CHECK_DEADLOCK FALSE
