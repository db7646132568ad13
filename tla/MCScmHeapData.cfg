SPECIFICATION Spec
CONSTANTS
    PageSz = 6
    ArgStackLen = 2
    VOID = VOID
    Inexact = {}
    Interning = TRUE
    Kinds = {"pair", "vector", "bytevector"}
    MaxObjs = 5
    MaxCycles = 2
    MaxLocals = 1
    Lengths <- SomeLengths
INVARIANTS InBounds OverrunsAreLarge
CHECK_DEADLOCK FALSE
