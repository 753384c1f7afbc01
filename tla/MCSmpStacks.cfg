CONSTANTS
    APs = {a1, a2, a3}
    NumStacks = 4
SPECIFICATION SmpSpec
INVARIANTS StacksApart
CHECK_DEADLOCK FALSE
