CONSTANTS
    APs = {a1, a2, a3}
    NumStacks = 2
SPECIFICATION SmpFairSpec
INVARIANTS CountHonest ReturnsHome
PROPERTIES Parks
\* Every processor may have halted.
CHECK_DEADLOCK FALSE
