CONSTANTS
    Capacity = 5
    MemoryMaps <- MCMemoryMaps
SPECIFICATION Spec
INVARIANTS NeverTwice Accounting NoneMeansNone
